---- MODULE Spec2Model ----
(***************************************************************************)
(* binmerge: the three differ strategies (src/src/diff_iter/*.rs) and the  *)
(* range tree (src/src/range_tree.rs).                                     *)
(*                                                                         *)
(* Offsets are 0-based as in the Rust code; TLA+ sequences are 1-based, so *)
(* the byte at offset o of a file f is f[o + 1].  A Range<u64> start..end  *)
(* is the record [start |-> s, end |-> e]; an Option<T> is a sequence of   *)
(* length at most one (None == <<>>, Some(x) == <<x>>).                    *)
(***************************************************************************)
EXTENDS Integers, Sequences, FiniteSets, TLC

VARIABLES
    \* ---- differ (one strategy per run) ----
    fileA, fileB,   \* the two input files, byte sequences of equal length
    strategy,       \* "bytes" | "memchr" | "threaded"
    pc,             \* position inside next(): "idle" | "equal" | "diff"
    start,          \* the local `start` of the diff phase
    pos,            \* self.pos of MemchrDiffIter / ThreadedDiffIter
    state,          \* BytesDiffIter.state
    iter,           \* BytesDiffIter.iter: number of byte pairs taken from the zip
    ma, mb,         \* MemchrDiffIter.a / .b: [buf |-> buffered bytes, off |-> file cursor]
    rdA, rdB,       \* threaded reader workers: [off |-> file cursor, done |-> thread exited]
    arx, brx,       \* threaded bounded channels: queued chunks
    ta, tb,         \* ThreadedDiffIter.a / .b (VecDeque<u8>)
    out,            \* every range next() has yielded so far, in order
    ret,            \* what the last completed call of next() returned
    nones,          \* how many calls of next() have returned None
    \* ---- range tree ----
    ranges,         \* RangeTree.ranges
    cursor,         \* a live RangesTouching iterator, or <<>>
    lastOp,         \* the last RangeTree call: name, argument, result
    panicked,       \* an assertion of the range tree failed (the process aborted)
    \* ---- interactive application (AppCtx, the layer stack, the main loop) ----
    exit,               \* ctx.exit
    shown_data_height,  \* ctx.shown_data_height, set by DiffView::render
    ctx_pos,            \* ctx.pos: offset of the first row of the viewport
    ctx_len,            \* ctx.len: the common length of the two files
    diffs,              \* ctx.diffs
    current_diff_index, \* ctx.current_diff_index (an Option)
    all_diffs_loaded,   \* ctx.all_diffs_loaded
    merges_1_into_2,    \* ctx.merges_1_into_2
    merges_2_into_1,    \* ctx.merges_2_into_1
    leave_unmerged,     \* ctx.leave_unmerged
    layers,             \* Layers.layers, bottom first
    diff_rx,            \* the diff channel: [queue |-> ranges sent and not yet received, open |-> receiver kept]
    phase,              \* position in the main loop: "draw" | "select"
    aborted,            \* "" while the process runs, else the panic that ended it
    \* ---- the worker threads of App::new ----
    diff_thread,        \* the diff thread: "running" | "ended" | "panicked"
    event_tx,           \* the event the event thread is blocked sending (an Option)
    \* ---- the layer stack while a key is handled or a frame is rendered ----
    layer_changes,      \* LayerCtx.layer_changes, <<>> when no LayerCtx is alive
    layer_pc,           \* "idle" | "handle_key_event" | "render"
    render_index,       \* render: the layers rendered so far in this pass
    \* ---- apply_changes ----
    apply_pc,           \* "idle" | "left" | "right" | "exited"
    apply_locals,       \* the locals merges_1_into_2, merges_2_into_1, done; pos of copy
    pre_apply           \* the two files and the decision trees when apply_changes was called

differVars == <<fileA, fileB, strategy, pc, start, pos, state, iter, ma, mb,
                rdA, rdB, arx, brx, ta, tb, out, ret, nones>>
treeVars == <<ranges, cursor, lastOp, panicked>>
appVars == <<exit, shown_data_height, ctx_pos, ctx_len, diffs, current_diff_index,
             all_diffs_loaded, merges_1_into_2, merges_2_into_1, leave_unmerged,
             layers, diff_rx, phase, aborted>>
threadVars == <<diff_thread, event_tx>>
layerVars == <<layer_changes, layer_pc, render_index>>
applyVars == <<apply_pc, apply_locals, pre_apply>>
vars == <<differVars, treeVars, appVars, threadVars, layerVars, applyVars>>

(***************************************************************************)
(* Bounds of the model.                                                    *)
(***************************************************************************)
\* longest input file
MaxLen == 4
\* capacity of a read buffer (8 MiB in the code), scaled down
BufCap == 2
\* capacity of a threaded reader's channel (64 in the code), scaled down
ChanCap == 2
\* calls of next() made after the iterator is exhausted
MaxNone == 1
\* byte values: two suffice to produce every pattern of equal/unequal offsets
ByteVals == 0..1

None == <<>>
Some(x) == <<x>>
Range(s, e) == [start |-> s, end |-> e]
Min(a, b) == IF a <= b THEN a ELSE b
Last(s) == s[Len(s)]
Drop(s, n) == SubSeq(s, n + 1, Len(s))
SetMin(S) == CHOOSE x \in S : \A y \in S : x <= y

Files == UNION {[1..n -> ByteVals] : n \in 0..MaxLen}

(***************************************************************************)
(* BytesDiffIter (src/src/diff_iter/bytes.rs)                              *)
(***************************************************************************)
Equal(s, l) == [tag |-> "Equal", start |-> s, len |-> l]
Different(s, l) == [tag |-> "Different", start |-> s, len |-> l]

\* A step of next() that forgets the byte it has just read when a run of
\* differing bytes ends.
BytesStepLosesByte(eq, st) ==
    CASE eq /\ st.tag = "Equal" ->
            [state |-> Equal(st.start, st.len + 1), ret |-> None]
      [] eq /\ st.tag = "Different" ->
            [state |-> Equal(st.start + st.len, 0),
             ret |-> Some(Range(st.start, st.start + st.len))]
      [] ~eq /\ st.tag = "Equal" ->
            [state |-> Different(st.start + st.len, 1), ret |-> None]
      [] ~eq /\ st.tag = "Different" ->
            [state |-> Different(st.start, st.len + 1), ret |-> None]

\* The match of BytesDiffIter::next on (a == b, self.state), for one byte pair:
\* the new state, and the range the call returns at once, if any.
BytesStep(eq, st) ==
    CASE eq /\ st.tag = "Equal" ->
            [state |-> Equal(st.start, st.len + 1), ret |-> None]
      [] eq /\ st.tag = "Different" ->
            [state |-> Equal(st.start + st.len, 1),
             ret |-> Some(Range(st.start, st.start + st.len))]
      [] ~eq /\ st.tag = "Equal" ->
            [state |-> Different(st.start + st.len, 1), ret |-> None]
      [] ~eq /\ st.tag = "Different" ->
            [state |-> Different(st.start, st.len + 1), ret |-> None]

\* An end of input that drops the run of differing bytes still open.
BytesAtEndDropsTail(st) == [state |-> st, ret |-> None]

\* The match of BytesDiffIter::next on self.state once the zipped bytes are
\* exhausted.
BytesAtEnd(st) ==
    IF st.tag = "Equal"
    THEN [state |-> st, ret |-> None]
    ELSE [state |-> Equal(0, 0),
          ret |-> Some(Range(st.start, st.start + st.len))]

\* BytesDiffIter::next from byte pair i on: the for loop over the zipped bytes
\* (which ends with the shorter input), then the match at end of input.
RECURSIVE BytesNextFrom(_, _, _, _)
BytesNextFrom(a, b, st, i) ==
    IF i >= Min(Len(a), Len(b))
    THEN LET e == BytesAtEnd(st) IN
         [state |-> e.state, iter |-> i, ret |-> e.ret]
    ELSE LET s == BytesStep(a[i + 1] = b[i + 1], st) IN
         IF s.ret # None
         THEN [state |-> s.state, iter |-> i + 1, ret |-> s.ret]
         ELSE BytesNextFrom(a, b, s.state, i + 1)

\* Every range a BytesDiffIter yields when it is run until it returns None.
RECURSIVE BytesCollect(_, _, _, _)
BytesCollect(a, b, st, i) ==
    LET r == BytesNextFrom(a, b, st, i) IN
    IF r.ret = None THEN <<>>
    ELSE r.ret \o BytesCollect(a, b, r.state, r.iter)

BytesAll(a, b) == BytesCollect(a, b, Equal(0, 0), 0)

\* How a completed call of next() shows: the result, the yielded ranges.
Returned(r) ==
    /\ ret' = r
    /\ out' = out \o r
    /\ nones' = IF r = None THEN nones + 1 ELSE nones
    /\ pc' = "idle"

\* One call of BytesDiffIter::next.
BytesNext ==
    /\ strategy = "bytes"
    /\ pc = "idle"
    /\ nones <= MaxNone
    /\ LET r == BytesNextFrom(fileA, fileB, state, iter) IN
        /\ state' = r.state
        /\ iter' = r.iter
        /\ Returned(r.ret)
    /\ UNCHANGED <<fileA, fileB, strategy, start, pos, ma, mb, rdA, rdB, arx, brx, ta, tb>>
    /\ UNCHANGED <<treeVars, appVars, threadVars, layerVars, applyVars>>

(***************************************************************************)
(* MemchrDiffIter (src/src/diff_iter/memchr.rs)                            *)
(***************************************************************************)
\* a.iter().zip(b.iter()).position(|(a, b)| a != b): the first index at which
\* the two buffers differ, within the shorter of the two.
PositionNe(a, b) ==
    LET hits == {i \in 0..(Min(Len(a), Len(b)) - 1) : a[i + 1] # b[i + 1]} IN
    IF hits = {} THEN None ELSE Some(SetMin(hits))

\* The second scan written with the predicate of the first (a != b).
PositionEqAsNe(a, b) ==
    LET hits == {i \in 0..(Min(Len(a), Len(b)) - 1) : a[i + 1] # b[i + 1]} IN
    IF hits = {} THEN None ELSE Some(SetMin(hits))

\* a.iter().zip(b.iter()).position(|(a, b)| a == b)
PositionEq(a, b) ==
    LET hits == {i \in 0..(Min(Len(a), Len(b)) - 1) : a[i + 1] = b[i + 1]} IN
    IF hits = {} THEN None ELSE Some(SetMin(hits))

\* The sizes the read behind BufReader::fill_buf may deliver: none while the
\* buffer still holds bytes, 0 at end of file, otherwise any count from 1 to
\* the buffer's capacity (a read may come back short).
ReadSizes(r, file) ==
    IF r.buf # <<>> \/ r.off = Len(file) THEN {0}
    ELSE 1..Min(BufCap, Len(file) - r.off)

\* BufReader::fill_buf with a read of n bytes
FillBuf(r, file, n) ==
    IF r.buf # <<>> THEN r
    ELSE [buf |-> SubSeq(file, r.off + 1, r.off + n), off |-> r.off + n]

\* BufReader::consume
Consume(r, n) == [r EXCEPT !.buf = Drop(@, n)]

\* One iteration of the first loop of MemchrDiffIter::next ("get rid of equal
\* bytes"); a call of next() starts here.
MemchrEqual ==
    /\ strategy = "memchr"
    /\ pc \in {"idle", "equal"}
    /\ pc = "idle" => nones <= MaxNone
    /\ \E na \in ReadSizes(ma, fileA), nb \in ReadSizes(mb, fileB) :
        LET a == FillBuf(ma, fileA, na)
            b == FillBuf(mb, fileB, nb)
            len == Min(Len(a.buf), Len(b.buf))
            p == PositionNe(a.buf, b.buf)
        IN  IF len = 0
            THEN /\ ma' = a
                 /\ mb' = b
                 /\ Returned(None)
                 /\ UNCHANGED <<pos, start>>
            ELSE IF p # None
            THEN /\ ma' = Consume(a, p[1])
                 /\ mb' = Consume(b, p[1])
                 /\ pos' = pos + p[1]
                 /\ start' = pos + p[1]
                 /\ pc' = "diff"
                 /\ UNCHANGED <<out, ret, nones>>
            ELSE /\ ma' = Consume(a, len)
                 /\ mb' = Consume(b, len)
                 /\ pos' = pos + len
                 /\ pc' = "equal"
                 /\ UNCHANGED <<start, out, ret, nones>>
    /\ UNCHANGED <<fileA, fileB, strategy, state, iter, rdA, rdB, arx, brx, ta, tb>>
    /\ UNCHANGED <<treeVars, appVars, threadVars, layerVars, applyVars>>

\* The second loop were it to yield the range found so far whenever a buffer
\* ends without an equal byte.
MemchrDiff_yields_at_buffer_end ==
    /\ strategy = "memchr"
    /\ pc = "diff"
    /\ \E na \in ReadSizes(ma, fileA), nb \in ReadSizes(mb, fileB) :
        LET a == FillBuf(ma, fileA, na)
            b == FillBuf(mb, fileB, nb)
            len == Min(Len(a.buf), Len(b.buf))
            p == PositionEq(a.buf, b.buf)
        IN  IF len = 0
            THEN /\ ma' = a
                 /\ mb' = b
                 /\ Returned(Some(Range(start, pos)))
                 /\ UNCHANGED <<pos, start>>
            ELSE IF p # None
            THEN /\ ma' = Consume(a, p[1])
                 /\ mb' = Consume(b, p[1])
                 /\ pos' = pos + p[1]
                 /\ Returned(Some(Range(start, pos + p[1])))
                 /\ UNCHANGED start
            ELSE /\ ma' = Consume(a, len)
                 /\ mb' = Consume(b, len)
                 /\ pos' = pos + len
                 /\ Returned(Some(Range(start, pos + len)))
                 /\ UNCHANGED start
    /\ UNCHANGED <<fileA, fileB, strategy, state, iter, rdA, rdB, arx, brx, ta, tb>>
    /\ UNCHANGED <<treeVars, appVars, threadVars, layerVars, applyVars>>

\* One iteration of the second loop of MemchrDiffIter::next ("we found a diff")
MemchrDiff ==
    /\ strategy = "memchr"
    /\ pc = "diff"
    /\ \E na \in ReadSizes(ma, fileA), nb \in ReadSizes(mb, fileB) :
        LET a == FillBuf(ma, fileA, na)
            b == FillBuf(mb, fileB, nb)
            len == Min(Len(a.buf), Len(b.buf))
            p == PositionEq(a.buf, b.buf)
        IN  IF len = 0
            THEN /\ ma' = a
                 /\ mb' = b
                 /\ Returned(Some(Range(start, pos)))
                 /\ UNCHANGED <<pos, start>>
            ELSE IF p # None
            THEN /\ ma' = Consume(a, p[1])
                 /\ mb' = Consume(b, p[1])
                 /\ pos' = pos + p[1]
                 /\ Returned(Some(Range(start, pos + p[1])))
                 /\ UNCHANGED start
            ELSE /\ ma' = Consume(a, len)
                 /\ mb' = Consume(b, len)
                 /\ pos' = pos + len
                 /\ UNCHANGED <<pc, start, out, ret, nones>>
    /\ UNCHANGED <<fileA, fileB, strategy, state, iter, rdA, rdB, arx, brx, ta, tb>>
    /\ UNCHANGED <<treeVars, appVars, threadVars, layerVars, applyVars>>

(***************************************************************************)
(* ThreadedDiffIter (src/src/diff_iter/threaded.rs)                        *)
(***************************************************************************)
\* file.take(cap).read_to_end(&mut buf): reads until the buffer's capacity is
\* reached or the file ends, so a chunk is short only at the end of the file.
ChunkLen(rd, file) == Min(BufCap, Len(file) - rd.off)

\* One iteration of thread_fn's loop, for the worker reading file a: read a
\* chunk and send it (blocking while the channel is full), or leave the loop at
\* end of file, which drops the sender and so closes the channel.
ReaderA ==
    /\ strategy = "threaded"
    /\ ~rdA.done
    /\ LET n == ChunkLen(rdA, fileA) IN
        IF n = 0
        THEN /\ rdA' = [rdA EXCEPT !.done = TRUE]
             /\ UNCHANGED arx
        ELSE /\ Len(arx) < ChanCap
             /\ arx' = Append(arx, SubSeq(fileA, rdA.off + 1, rdA.off + n))
             /\ rdA' = [rdA EXCEPT !.off = @ + n]
    /\ UNCHANGED <<fileA, fileB, strategy, pc, start, pos, state, iter, ma, mb,
                   rdB, brx, ta, tb, out, ret, nones>>
    /\ UNCHANGED <<treeVars, appVars, threadVars, layerVars, applyVars>>

\* The same, for the worker reading file b.
ReaderB ==
    /\ strategy = "threaded"
    /\ ~rdB.done
    /\ LET n == ChunkLen(rdB, fileB) IN
        IF n = 0
        THEN /\ rdB' = [rdB EXCEPT !.done = TRUE]
             /\ UNCHANGED brx
        ELSE /\ Len(brx) < ChanCap
             /\ brx' = Append(brx, SubSeq(fileB, rdB.off + 1, rdB.off + n))
             /\ rdB' = [rdB EXCEPT !.off = @ + n]
    /\ UNCHANGED <<fileA, fileB, strategy, pc, start, pos, state, iter, ma, mb,
                   rdA, arx, ta, tb, out, ret, nones>>
    /\ UNCHANGED <<treeVars, appVars, threadVars, layerVars, applyVars>>

\* recv() blocks on an empty channel whose sender is alive.
RecvBlocks(buf, chan, rd) == buf = <<>> /\ chan = <<>> /\ ~rd.done
\* recv() fails on an empty channel whose sender is gone.
RecvFails(buf, chan, rd) == buf = <<>> /\ chan = <<>> /\ rd.done

\* fill_buffs can run to its end: neither recv() it performs blocks.
FillBuffsReady ==
    /\ ~RecvBlocks(ta, arx, rdA)
    /\ RecvFails(ta, arx, rdA) \/ ~RecvBlocks(tb, brx, rdB)

\* ThreadedDiffIter::fill_buffs: the buffers and channels after it, and whether
\* it returned Some.  A failed recv() on a returns before b is looked at; a
\* failed recv() on b returns after a has been refilled.
FillBuffs ==
    IF RecvFails(ta, arx, rdA)
    THEN [some |-> FALSE, a |-> ta, b |-> tb, arx |-> arx, brx |-> brx]
    ELSE LET a1 == IF ta = <<>> THEN Head(arx) ELSE ta
             arx1 == IF ta = <<>> THEN Tail(arx) ELSE arx
         IN  IF RecvFails(tb, brx, rdB)
             THEN [some |-> FALSE, a |-> a1, b |-> tb, arx |-> arx1, brx |-> brx]
             ELSE [some |-> TRUE, a |-> a1, arx |-> arx1,
                   b |-> IF tb = <<>> THEN Head(brx) ELSE tb,
                   brx |-> IF tb = <<>> THEN Tail(brx) ELSE brx]

\* ThreadedDiffIter::consume on the buffers f holds: what is left of them and
\* the new pos.  VecDeque::drain(..amount) panics when amount exceeds the
\* length of the deque.
ThreadedConsume(f, amount) ==
    [a |-> Drop(f.a, amount), b |-> Drop(f.b, amount), pos |-> pos + amount,
     panic |-> amount > Len(f.a) \/ amount > Len(f.b)]

\* One iteration of the 'equal loop of ThreadedDiffIter::next; a call of next()
\* starts here.
ThreadedEqual ==
    /\ strategy = "threaded"
    /\ pc \in {"idle", "equal"}
    /\ pc = "idle" => nones <= MaxNone
    /\ FillBuffsReady
    /\ LET f == FillBuffs
           p == PositionNe(f.a, f.b)
           c == ThreadedConsume(f, IF p # None THEN p[1] ELSE Len(f.a))
       IN  /\ arx' = f.arx
           /\ brx' = f.brx
           /\ IF ~f.some
              THEN /\ ta' = f.a
                   /\ tb' = f.b
                   /\ Returned(None)
                   /\ UNCHANGED <<pos, start>>
              ELSE /\ ta' = c.a
                   /\ tb' = c.b
                   /\ pos' = IF c.panic THEN pos ELSE c.pos
                   /\ start' = IF p # None /\ ~c.panic THEN c.pos ELSE start
                   /\ pc' = IF c.panic THEN "panic"
                            ELSE IF p # None THEN "diff" ELSE "equal"
                   /\ UNCHANGED <<out, ret, nones>>
    /\ UNCHANGED <<fileA, fileB, strategy, state, iter, ma, mb, rdA, rdB>>
    /\ UNCHANGED <<treeVars, appVars, threadVars, layerVars, applyVars>>

\* One iteration of the inner loop of ThreadedDiffIter::next after a diff has
\* been found.
ThreadedDiff ==
    /\ strategy = "threaded"
    /\ pc = "diff"
    /\ FillBuffsReady
    /\ LET f == FillBuffs
           p == PositionEq(f.a, f.b)
           c == ThreadedConsume(f, IF p # None THEN p[1] ELSE Len(f.a))
       IN  /\ arx' = f.arx
           /\ brx' = f.brx
           /\ UNCHANGED start
           /\ IF ~f.some
              THEN /\ ta' = f.a
                   /\ tb' = f.b
                   /\ Returned(Some(Range(start, pos)))
                   /\ UNCHANGED pos
              ELSE /\ ta' = c.a
                   /\ tb' = c.b
                   /\ pos' = IF c.panic THEN pos ELSE c.pos
                   /\ IF c.panic
                      THEN pc' = "panic" /\ UNCHANGED <<out, ret, nones>>
                      ELSE IF p # None
                      THEN Returned(Some(Range(start, c.pos)))
                      ELSE UNCHANGED <<pc, out, ret, nones>>
    /\ UNCHANGED <<fileA, fileB, strategy, state, iter, ma, mb, rdA, rdB>>
    /\ UNCHANGED <<treeVars, appVars, threadVars, layerVars, applyVars>>

(***************************************************************************)
(* The differ run on its own (the benchmark mode of the tool: one strategy *)
(* streams the diffs of two files of equal length).                        *)
(***************************************************************************)
Strategies == {"bytes", "memchr", "threaded"}

\* RangeTree::new()
EmptyTree == <<>>

\* No interactive application runs (the benchmark mode, or the library used
\* on its own).
AppIdle ==
    /\ exit = FALSE
    /\ shown_data_height = 0
    /\ ctx_pos = 0
    /\ ctx_len = 0
    /\ diffs = <<>>
    /\ current_diff_index = None
    /\ all_diffs_loaded = FALSE
    /\ merges_1_into_2 = <<>>
    /\ merges_2_into_1 = <<>>
    /\ leave_unmerged = <<>>
    /\ layers = <<>>
    /\ diff_rx = [queue |-> <<>>, open |-> FALSE]
    /\ phase = "draw"
    /\ aborted = ""

\* No LayerCtx is alive: no key is being handled, no frame rendered.
LayersIdle ==
    /\ layer_changes = <<>>
    /\ layer_pc = "idle"
    /\ render_index = 0

\* apply_changes has not been called.
ApplyIdle ==
    /\ apply_pc = "idle"
    /\ apply_locals = <<>>
    /\ pre_apply = <<>>

\* The diff thread has ended, the event thread offers nothing.
ThreadsIdle ==
    /\ diff_thread = "ended"
    /\ event_tx = None

TreeIdle ==
    /\ ranges = EmptyTree
    /\ cursor = None
    /\ lastOp = [name |-> "new"]
    /\ panicked = FALSE

\* BytesDiffIter::new, MemchrDiffIter::new, ThreadedDiffIter::new on two files
\* of equal length.
InitDiffer ==
    /\ fileA \in Files
    /\ fileB \in {f \in Files : Len(f) = Len(fileA)}
    /\ strategy \in Strategies
    /\ pc = "idle"
    /\ start = 0
    /\ pos = 0
    /\ state = Equal(0, 0)
    /\ iter = 0
    /\ ma = [buf |-> <<>>, off |-> 0]
    /\ mb = [buf |-> <<>>, off |-> 0]
    /\ rdA = [off |-> 0, done |-> FALSE]
    /\ rdB = [off |-> 0, done |-> FALSE]
    /\ arx = <<>>
    /\ brx = <<>>
    /\ ta = <<>>
    /\ tb = <<>>
    /\ out = <<>>
    /\ ret = None
    /\ nones = 0
    /\ TreeIdle
    /\ AppIdle
    /\ ThreadsIdle
    /\ LayersIdle
    /\ ApplyIdle

NextDiffer ==
    \/ BytesNext
    \/ MemchrEqual
    \/ MemchrDiff
    \/ ReaderA
    \/ ReaderB
    \/ ThreadedEqual
    \/ ThreadedDiff

SpecDiffer == InitDiffer /\ [][NextDiffer]_vars

(***************************************************************************)
(* RangeTree (src/src/range_tree.rs)                                       *)
(*                                                                         *)
(* T is u64: T::min_value() is 0 and T::max_value() lies above every value *)
(* of the model.  A Range<u64> may have start > end (Rust builds 3..1      *)
(* without complaint), so the arguments of the calls are drawn from every  *)
(* pair of values.                                                         *)
(***************************************************************************)
\* largest value of a range given to append, insert or remove_range_exact
MaxVal == 2
\* the tree is not grown beyond this many ranges
MaxRanges == 3
\* calls of RangesTouching::next made after it has returned None
MaxCursorNone == 1

Vals == 0..MaxVal
RangeArgs == {Range(s, e) : s, e \in Vals}

\* the trees of the documentation tests of lookup_index and of contains /
\* ranges_touching
DocVecs == { <<Range(1, 2), Range(3, 4), Range(4, 8), Range(9, 10)>>,
             <<Range(0, 2), Range(3, 4), Range(4, 8), Range(9, 10)>> }
\* the elements and ranges the documentation tests query
DocElems == {0, 1, 2, 3, 4, 7, 8, 9, 10, 100}
DocQueries == {Range(4, 9), Range(2, 8)}
QueryElems == (0..(MaxVal + 1)) \cup DocElems
QueryRanges == RangeArgs \cup DocQueries

\* Range::contains
range_contains(r, e) == r.start <= e /\ e < r.end

\* Vec::get(index), index counted from 0
get(rs, index) == IF index < Len(rs) THEN Some(rs[index + 1]) ELSE None

\* Vec::insert(index, x) and Vec::remove(index), index counted from 0
vec_insert(rs, index, x) ==
    SubSeq(rs, 1, index) \o <<x>> \o SubSeq(rs, index + 1, Len(rs))
vec_remove(rs, index) == SubSeq(rs, 1, index) \o SubSeq(rs, index + 2, Len(rs))

\* ranges.sort_by_key(|r| r.start): a stable sort, here by insertion
RECURSIVE sort_by_start(_)
sort_by_start(v) ==
    IF v = <<>> THEN <<>>
    ELSE LET rest == sort_by_start(SubSeq(v, 1, Len(v) - 1))
             x == v[Len(v)]
             k == Cardinality({i \in 1..Len(rest) : rest[i].start <= x.start})
         IN  vec_insert(rest, k, x)

\* RangeTree::from_vec: the sorted vector, and whether the assertions on its
\* windows of two hold
from_vec(v) ==
    LET rs == sort_by_start(v) IN
    [ranges |-> rs,
     panic |-> \E i \in 1..(Len(rs) - 1) :
                  ~ /\ rs[i].start <= rs[i].end
                    /\ rs[i + 1].start <= rs[i + 1].end
                    /\ rs[i].end <= rs[i + 1].start]

\* A comparator that takes a range ending exactly at the element as not yet
\* below it.
compare_end_inclusive(r, element) ==
    IF r.end < element THEN "Less"
    ELSE IF range_contains(r, element) THEN "Greater"
    ELSE IF element < r.start THEN "Greater"
    ELSE "Greater"

\* A comparator that orders the ranges by their start alone.
compare_by_start(r, element) ==
    IF r.start <= element THEN "Less" ELSE "Greater"

\* The comparator lookup_index hands to binary_search_by; the last branch is
\* the unreachable!() of the code.
compare(r, element) ==
    IF r.end <= element THEN "Less"
    ELSE IF range_contains(r, element) THEN "Greater"
    ELSE IF element < r.start THEN "Greater"
    ELSE "unreachable"

\* slice::binary_search_by with that comparator, which never answers Equal:
\* the search halves [left, right) until it is empty and returns Err(left).
RECURSIVE binary_search_by(_, _, _, _)
binary_search_by(rs, element, left, right) ==
    IF left >= right THEN left
    ELSE LET mid == left + ((right - left) \div 2) IN
         IF compare(rs[mid + 1], element) = "Less"
         THEN binary_search_by(rs, element, mid + 1, right)
         ELSE binary_search_by(rs, element, left, mid)

\* RangeTree::lookup_index
lookup_index(rs, element) == binary_search_by(rs, element, 0, Len(rs))

\* RangeTree::contains
contains(rs, element) ==
    LET g == get(rs, lookup_index(rs, element)) IN
    IF g = None THEN FALSE ELSE range_contains(g[1], element)

\* The last call has handed back nothing the caller still holds: no result
\* of a query, no iterator borrowing the tree.
Free == lastOp.name \notin {"lookup_index", "contains", "ranges_touching"}

\* what a call of the tree leaves alone besides the tree itself
TreeCall(op) ==
    /\ lastOp' = op
    /\ cursor' = None
    /\ UNCHANGED <<differVars, appVars, threadVars, layerVars, applyVars>>

\* RangeTree::append
append(range) ==
    /\ ~panicked /\ Free
    /\ Len(ranges) < MaxRanges
    /\ LET last_val == IF ranges = <<>> THEN 0 ELSE Last(ranges).end
           ok == range.start <= range.end /\ range.start >= last_val
       IN  /\ panicked' = ~ok
           /\ ranges' = IF ok THEN Append(ranges, range) ELSE ranges
    /\ TreeCall([name |-> "append"])

\* RangeTree::insert
insert(range) ==
    /\ ~panicked /\ Free
    /\ Len(ranges) < MaxRanges
    /\ LET index == lookup_index(ranges, range.start)
           ok == /\ index # 0 => ranges[index].end <= range.start
                 /\ get(ranges, index) # None =>
                        range.end <= ranges[index + 1].start
       IN  /\ panicked' = ~ok
           /\ ranges' = IF ok THEN vec_insert(ranges, index, range) ELSE ranges
    /\ TreeCall([name |-> "insert"])

\* RangeTree::remove_range_exact; lastOp.ret is what it returns
remove_range_exact(range) ==
    /\ ~panicked /\ Free
    /\ LET index == lookup_index(ranges, range.start)
           r == get(ranges, index)
           ok == range.start <= range.end
           found == r # None /\ r[1].start = range.start /\ r[1].end = range.end
       IN  /\ panicked' = ~ok
           /\ ranges' = IF ok /\ found THEN vec_remove(ranges, index) ELSE ranges
           /\ TreeCall([name |-> "remove_range_exact", ret |-> ok /\ found])

\* a call of RangeTree::lookup_index
call_lookup_index(element) ==
    /\ ~panicked /\ Free
    /\ TreeCall([name |-> "lookup_index", arg |-> element,
                 ret |-> lookup_index(ranges, element)])
    /\ UNCHANGED <<ranges, panicked>>

\* a call of RangeTree::contains
call_contains(element) ==
    /\ ~panicked /\ Free
    /\ TreeCall([name |-> "contains", arg |-> element,
                 ret |-> contains(ranges, element)])
    /\ UNCHANGED <<ranges, panicked>>

\* RangeTree::ranges_touching: the iterator borrows the tree, which therefore
\* does not change while the iterator is in use.  lastOp.ret collects what the
\* iterator yields, lastOp.nones counts its None.
ranges_touching(range) ==
    /\ ~panicked /\ Free
    /\ cursor' = Some([index |-> lookup_index(ranges, range.start),
                       end |-> range.end])
    /\ lastOp' = [name |-> "ranges_touching", arg |-> range, ret |-> <<>>,
                  nones |-> 0]
    /\ UNCHANGED <<ranges, panicked>>
    /\ UNCHANGED <<differVars, appVars, threadVars, layerVars, applyVars>>

\* A cursor that stops before a range starting at the end of the query.
touching_next_exclusive(c, rs) ==
    LET g == get(rs, c.index) IN
    IF g = None THEN [cursor |-> c, ret |-> None]
    ELSE IF g[1].start < c.end
         THEN [cursor |-> [c EXCEPT !.index = @ + 1], ret |-> g]
         ELSE [cursor |-> c, ret |-> None]

\* RangesTouching::next on cursor c over the ranges rs
touching_next(c, rs) ==
    LET g == get(rs, c.index) IN
    IF g = None THEN [cursor |-> c, ret |-> None]
    ELSE IF g[1].start <= c.end
         THEN [cursor |-> [c EXCEPT !.index = @ + 1], ret |-> g]
         ELSE [cursor |-> c, ret |-> None]

\* a call of RangesTouching::next
ranges_touching_next ==
    /\ ~panicked
    /\ cursor # None
    /\ lastOp.nones <= MaxCursorNone
    /\ LET n == touching_next(cursor[1], ranges) IN
        /\ cursor' = Some(n.cursor)
        /\ lastOp' = [lastOp EXCEPT !.ret = @ \o n.ret,
                                    !.nones = IF n.ret = None THEN @ + 1 ELSE @]
    /\ UNCHANGED <<ranges, panicked>>
    /\ UNCHANGED <<differVars, appVars, threadVars, layerVars, applyVars>>

\* The caller is done with the result of a query, or drops the iterator and
\* with it the borrow of the tree.
release ==
    /\ ~panicked /\ ~Free
    /\ TreeCall([name |-> "released"])
    /\ UNCHANGED <<ranges, panicked>>

DifferIdle ==
    /\ fileA = <<>>
    /\ fileB = <<>>
    /\ strategy = "bytes"
    /\ pc = "done"
    /\ start = 0
    /\ pos = 0
    /\ state = Equal(0, 0)
    /\ iter = 0
    /\ ma = [buf |-> <<>>, off |-> 0]
    /\ mb = [buf |-> <<>>, off |-> 0]
    /\ rdA = [off |-> 0, done |-> TRUE]
    /\ rdB = [off |-> 0, done |-> TRUE]
    /\ arx = <<>>
    /\ brx = <<>>
    /\ ta = <<>>
    /\ tb = <<>>
    /\ out = <<>>
    /\ ret = None
    /\ nones = 0

\* RangeTree::new(), or RangeTree::from_vec on a vector of the documentation
InitTree ==
    /\ ranges \in {EmptyTree} \cup {from_vec(v).ranges : v \in {w \in DocVecs : ~from_vec(w).panic}}
    /\ cursor = None
    /\ lastOp = [name |-> "new"]
    /\ panicked = FALSE
    /\ DifferIdle
    /\ AppIdle
    /\ ThreadsIdle
    /\ LayersIdle
    /\ ApplyIdle

NextTree ==
    \/ \E r \in RangeArgs : append(r)
    \/ \E r \in RangeArgs : insert(r)
    \/ \E r \in RangeArgs : remove_range_exact(r)
    \/ \E e \in QueryElems : call_lookup_index(e)
    \/ \E e \in QueryElems : call_contains(e)
    \/ \E r \in QueryRanges : ranges_touching(r)
    \/ ranges_touching_next
    \/ release

SpecTree == InitTree /\ [][NextTree]_vars

(***************************************************************************)
(* The interactive application: the context the layers share (AppCtx; its  *)
(* navigation methods are those of App in src/src/main.rs), the layer      *)
(* stack (src/src/layers.rs), the diff view (src/src/diff_view.rs), the    *)
(* yes/no popup (src/src/popup.rs) and the main loop (App::run).           *)
(*                                                                         *)
(* Arithmetic on u64 is checked in a debug build (an overflow panics) and  *)
(* wraps in a release build; every operator that computes takes the build. *)
(***************************************************************************)
\* The modulus of u64 arithmetic.  The code's 2^64 is beyond the integers of
\* the model checker; the model wraps at a smaller power of two, which like
\* 2^64 is a multiple of 16 and lies above every offset of the model.
U64Modulus == 1048576
Builds == {"debug", "release"}

\* u64::saturating_sub
saturating_sub(a, b) == IF a >= b THEN a - b ELSE 0
\* a - b on u64: [val, panic]; debug panics on overflow, release wraps
checked_sub(build, a, b) ==
    IF a >= b THEN [val |-> a - b, panic |-> FALSE]
    ELSE IF build = "debug" THEN [val |-> 0, panic |-> TRUE]
    ELSE [val |-> (a - b) + U64Modulus, panic |-> FALSE]

\* the result of a method of the context: the new pos, and the panic that
\* ended the method, if any
PosOk(p) == [pos |-> p, aborted |-> ""]
PosPanic(p, why) == [pos |-> p, aborted |-> why]
\* assert_eq!(self.pos % 16, 0)
AssertAligned(p) == IF p % 16 = 0 THEN PosOk(p) ELSE PosPanic(p, "assert_eq pos % 16")

\* AppCtx::decrease_pos
decrease_pos(p, by) == AssertAligned(saturating_sub(p, by))

\* increase_pos with the largest position taken as len - bytes_shown itself
increase_pos_unaligned_max(build, p, by, length, height) ==
    LET bytes_shown == height * 16
        d == checked_sub(build, length, bytes_shown)
    IN  IF d.panic THEN PosPanic(p + by, "overflow")
        ELSE AssertAligned(Min(p + by, d.val))

\* AppCtx::increase_pos
increase_pos(build, p, by, length, height) ==
    LET bytes_shown == height * 16
        d == checked_sub(build, length, bytes_shown)
        max_pos == (d.val - (d.val % 16)) + 16
    IN  IF d.panic THEN PosPanic(p + by, "overflow")
        ELSE AssertAligned(Min(p + by, max_pos))

\* AppCtx::prev_diff, the new current_diff_index (k is diffs.len())
prev_index(index, k) ==
    IF index = None \/ index = Some(0) THEN Some(saturating_sub(k, 1))
    ELSE Some(index[1] - 1)

\* next_diff that stops at the last diff instead of wrapping
next_index_no_wrap(index, k) ==
    IF index = None THEN [index |-> Some(0), aborted |-> ""]
    ELSE IF k = 0 THEN [index |-> index, aborted |-> "remainder by zero"]
    ELSE [index |-> Some(Min(index[1] + 1, k - 1)), aborted |-> ""]

\* AppCtx::next_diff, the new current_diff_index; (index + 1) % 0 panics
next_index(index, k) ==
    IF index = None THEN [index |-> Some(0), aborted |-> ""]
    ELSE IF k = 0 THEN [index |-> index, aborted |-> "remainder by zero"]
    ELSE [index |-> Some((index[1] + 1) % k), aborted |-> ""]

\* AppCtx::center_diff
center_diff(build, p, index, ds, height) ==
    LET g == IF index = None THEN None ELSE get(ds, index[1]) IN
    IF g = None THEN PosOk(p)
    ELSE LET range == g[1]
             length == checked_sub(build, range.end, range.start)
             bytes_shown == height * 16
             limit == checked_sub(build, bytes_shown, 48)
             room == checked_sub(build, bytes_shown, length.val)
         IN  IF length.panic \/ limit.panic THEN PosPanic(p, "overflow")
             ELSE IF length.val > limit.val
             THEN LET q == saturating_sub(range.start, 32)
                  IN  AssertAligned(q - (q % 16))
             ELSE IF room.panic THEN PosPanic(p, "overflow")
             ELSE LET top_offset == room.val \div 2
                      q == saturating_sub(range.start, top_offset)
                  IN  AssertAligned(q - (q % 16))

\* RangeTree::insert on the ranges rs: the new ranges, and whether an
\* assertion failed
tree_insert(rs, range) ==
    LET index == lookup_index(rs, range.start)
        ok == /\ index # 0 => rs[index].end <= range.start
              /\ get(rs, index) # None => range.end <= rs[index + 1].start
    IN  [ranges |-> IF ok THEN vec_insert(rs, index, range) ELSE rs, panic |-> ~ok]

\* RangeTree::remove_range_exact on the ranges rs
tree_remove(rs, range) ==
    LET index == lookup_index(rs, range.start)
        r == get(rs, index)
        ok == range.start <= range.end
        found == r # None /\ r[1].start = range.start /\ r[1].end = range.end
    IN  [ranges |-> IF ok /\ found THEN vec_remove(rs, index) ELSE rs,
         ret |-> ok /\ found, panic |-> ~ok]

\* RangeTree::append on the ranges rs
tree_append(rs, range) ==
    LET last_val == IF rs = <<>> THEN 0 ELSE Last(rs).end
        ok == range.start <= range.end /\ range.start >= last_val
    IN  [ranges |-> IF ok THEN Append(rs, range) ELSE rs, panic |-> ~ok]

\* RangeTree::contains_range_exact
contains_range_exact(rs, range) ==
    LET r == get(rs, lookup_index(rs, range.start)) IN
    r # None /\ r[1].start = range.start /\ r[1].end = range.end

\* the AppCtx the layers are handed
Ctx ==
    [exit |-> exit, shown_data_height |-> shown_data_height, pos |-> ctx_pos,
     len |-> ctx_len, diffs |-> diffs, current_diff_index |-> current_diff_index,
     all_diffs_loaded |-> all_diffs_loaded, merges_1_into_2 |-> merges_1_into_2,
     merges_2_into_1 |-> merges_2_into_1, leave_unmerged |-> leave_unmerged]

\* the layers of the application
DiffView == [kind |-> "DiffView"]
\* A popup that opens with YES selected.
PopupYesNo_starts_on_yes(title) == [kind |-> title, yes_selected |-> TRUE]
\* PopupYesNo::new: NO is selected
PopupYesNo(title) == [kind |-> title, yes_selected |-> FALSE]
QuitPopup == PopupYesNo("Quit?")
ApplyChangesPopup == PopupYesNo("Apply Changes?")
\* LayerChange
Push(layer) == [change |-> "Push", layer |-> layer]
Pop == [change |-> "Pop"]

\* what a key handler leaves behind: the context, the layer changes it asked
\* for, and the panic that ended it, if any
Handled(c, changes) == [ctx |-> c, changes |-> changes, aborted |-> ""]
Panicked(c, why) == [ctx |-> c, changes |-> <<>>, aborted |-> why]
WithPos(c, r) ==
    IF r.aborted = "" THEN Handled([c EXCEPT !.pos = r.pos], <<>>)
    ELSE Panicked([c EXCEPT !.pos = r.pos], r.aborted)

ClassifyKeys == {">", "<", "=", "!"}

\* The arms as they would be were '>' to leave out its call on leave_unmerged.
classify_calls_keeps_unmerged(key) ==
    CASE key = ">" -> << <<"merges_1_into_2", "insert">>, <<"merges_2_into_1", "remove">> >>
      [] key = "<" -> << <<"merges_1_into_2", "remove">>, <<"merges_2_into_1", "insert">>,
                         <<"leave_unmerged", "remove">> >>
      [] key = "=" -> << <<"merges_1_into_2", "remove">>, <<"merges_2_into_1", "remove">>,
                         <<"leave_unmerged", "insert">> >>
      [] key = "!" -> << <<"merges_1_into_2", "remove">>, <<"merges_2_into_1", "remove">>,
                         <<"leave_unmerged", "remove">> >>

\* The calls the arms of the keys '>', '<', '=' and '!' make on the three
\* classification trees, in the order of the code.
classify_calls(key) ==
    CASE key = ">" -> << <<"merges_1_into_2", "insert">>, <<"merges_2_into_1", "remove">>,
                         <<"leave_unmerged", "remove">> >>
      [] key = "<" -> << <<"merges_1_into_2", "remove">>, <<"merges_2_into_1", "insert">>,
                         <<"leave_unmerged", "remove">> >>
      [] key = "=" -> << <<"merges_1_into_2", "remove">>, <<"merges_2_into_1", "remove">>,
                         <<"leave_unmerged", "insert">> >>
      [] key = "!" -> << <<"merges_1_into_2", "remove">>, <<"merges_2_into_1", "remove">>,
                         <<"leave_unmerged", "remove">> >>

\* the calls from the i-th on, made on the context c with the range of the
\* current diff; a failed assertion ends them
RECURSIVE run_calls(_, _, _, _)
run_calls(c, range, calls, i) ==
    IF i > Len(calls) THEN Handled(c, <<>>)
    ELSE LET tree == calls[i][1]
             r == IF calls[i][2] = "insert" THEN tree_insert(c[tree], range)
                  ELSE tree_remove(c[tree], range)
         IN  IF r.panic THEN Panicked(c, "RangeTree assertion")
             ELSE run_calls([c EXCEPT ![tree] = r.ranges], range, calls, i + 1)

\* the arms '>', '<', '=', '!' of DiffView::handle_key_event
classify(c, key) ==
    IF c.current_diff_index = None THEN Handled(c, <<>>)
    ELSE LET g == get(c.diffs, c.current_diff_index[1]) IN
         IF g = None THEN Panicked(c, "unwrap on None")
         ELSE run_calls(c, g[1], classify_calls(key), 1)

\* the arm 'q' of DiffView::handle_key_event
quit_key(c) ==
    IF c.merges_1_into_2 = <<>> /\ c.merges_2_into_1 = <<>>
    THEN Handled([c EXCEPT !.exit = TRUE], <<>>)
    ELSE Handled(c, <<Push(QuitPopup)>>)

\* the arms 'N' and 'n': prev_diff / next_diff, which end in center_diff
prev_diff(build, c) ==
    LET index == prev_index(c.current_diff_index, Len(c.diffs))
        d == [c EXCEPT !.current_diff_index = index]
    IN  WithPos(d, center_diff(build, c.pos, index, c.diffs, c.shown_data_height))
next_diff(build, c) ==
    LET n == next_index(c.current_diff_index, Len(c.diffs))
        d == [c EXCEPT !.current_diff_index = n.index]
    IN  IF n.aborted # "" THEN Panicked(c, n.aborted)
        ELSE WithPos(d, center_diff(build, c.pos, n.index, c.diffs, c.shown_data_height))

\* DiffView::handle_key_event
DiffView_handle_key_event(build, c, key) ==
    CASE key = "q" -> quit_key(c)
      [] key = "Down" ->
            WithPos(c, increase_pos(build, c.pos, 16, c.len, c.shown_data_height))
      [] key = "Up" -> WithPos(c, decrease_pos(c.pos, 16))
      [] key = "PageDown" ->
            WithPos(c, increase_pos(build, c.pos, c.shown_data_height * 16, c.len,
                                    c.shown_data_height))
      [] key = "PageUp" -> WithPos(c, decrease_pos(c.pos, c.shown_data_height * 16))
      [] key = "N" -> prev_diff(build, c)
      [] key = "n" -> next_diff(build, c)
      [] key \in ClassifyKeys -> classify(c, key)
      [] key \in {"a", "w"} -> Handled(c, <<Push(ApplyChangesPopup)>>)
      [] OTHER -> Handled(c, <<>>)

\* A popup whose Esc and 'q' pop two layers.
PopupYesNo_handle_key_event_pops_twice(popup, key) ==
    CASE key \in {"Left", "Right"} ->
            [layer |-> [popup EXCEPT !.yes_selected = ~@], changes |-> <<>>, aborted |-> ""]
      [] key \in {"Esc", "q"} -> [layer |-> popup, changes |-> <<Pop, Pop>>, aborted |-> ""]
      [] key = "Enter" /\ ~popup.yes_selected ->
            [layer |-> popup, changes |-> <<Pop>>, aborted |-> ""]
      [] key = "Enter" /\ popup.yes_selected ->
            [layer |-> popup, changes |-> <<>>, aborted |-> "not yet implemented"]
      [] OTHER -> [layer |-> popup, changes |-> <<>>, aborted |-> ""]

\* PopupYesNo::handle_key_event: the popup after the key, the layer changes
\* it asked for, and the panic that ended it; Enter on YES runs into todo!()
PopupYesNo_handle_key_event(popup, key) ==
    CASE key \in {"Left", "Right"} ->
            [layer |-> [popup EXCEPT !.yes_selected = ~@], changes |-> <<>>, aborted |-> ""]
      [] key \in {"Esc", "q"} -> [layer |-> popup, changes |-> <<Pop>>, aborted |-> ""]
      [] key = "Enter" /\ ~popup.yes_selected ->
            [layer |-> popup, changes |-> <<Pop>>, aborted |-> ""]
      [] key = "Enter" /\ popup.yes_selected ->
            [layer |-> popup, changes |-> <<>>, aborted |-> "not yet implemented"]
      [] OTHER -> [layer |-> popup, changes |-> <<>>, aborted |-> ""]

\* Changes applied from the last requested to the first.
RECURSIVE apply_layer_changes_reversed(_, _)
apply_layer_changes_reversed(ls, changes) ==
    IF changes = <<>> THEN ls
    ELSE LET ch == Last(changes)
             next == IF ch.change = "Push" THEN Append(ls, ch.layer)
                     ELSE IF ls = <<>> THEN ls
                     ELSE SubSeq(ls, 1, Len(ls) - 1)
         IN  apply_layer_changes_reversed(next, SubSeq(changes, 1, Len(changes) - 1))

\* Layers::apply_layer_changes
RECURSIVE apply_layer_changes(_, _)
apply_layer_changes(ls, changes) ==
    IF changes = <<>> THEN ls
    ELSE LET ch == Head(changes)
             next == IF ch.change = "Push" THEN Append(ls, ch.layer)
                     ELSE IF ls = <<>> THEN ls
                     ELSE SubSeq(ls, 1, Len(ls) - 1)
         IN  apply_layer_changes(next, Tail(changes))

\* The layer a key event is handed to, were it the bottom one.
receiving_layer_bottom(ls) == Min(1, Len(ls))
\* the layer Layers::handle_key_event hands the event to: self.layers.last_mut()
receiving_layer(ls) == Len(ls)

\* Layers::handle_key_event: the context and the layers after the key
Layers_handle_key_event(build, ls, c, key) ==
    IF ls = <<>> THEN [ctx |-> c, layers |-> ls, aborted |-> ""]
    ELSE LET at == receiving_layer(ls) IN
         IF ls[at].kind = "DiffView"
         THEN LET r == DiffView_handle_key_event(build, c, key) IN
              [ctx |-> r.ctx, layers |-> apply_layer_changes(ls, r.changes),
               aborted |-> r.aborted]
         ELSE LET r == PopupYesNo_handle_key_event(ls[at], key) IN
              [ctx |-> c,
               layers |-> apply_layer_changes([ls EXCEPT ![at] = r.layer], r.changes),
               aborted |-> r.aborted]

(***************************************************************************)
(* The main loop (App::run): draw the layers, then wait for a diff of the  *)
(* differ thread or for a terminal event, and handle it.                   *)
(***************************************************************************)
\* the differ sends at most this many diffs
MaxDiffs == 3
\* the lengths of the two files: one that is a multiple of 16, one that is not
FileLens == {72, 80}
\* the rows of 16 bytes the terminal has room for (left.height - 2): a
\* viewport of fewer than 48 bytes and one of more
Heights == {2, 4}
\* the keys of the model: those of the diff view and of the popup
Keys == {"q", "Down", "Up", "PageDown", "PageUp", "N", "n", ">", "<", "=", "!",
         "a", "w", "Left", "Right", "Enter", "Esc"}

\* The diffs of the model for files of length l: a short one at the start of
\* the files, a shorter one after it, a long one in the middle, a short one
\* at their end; a diff list holds at most MaxDiffs of them.
CandidateDiffs(l) == <<Range(0, 8), Range(16, 20), Range(24, 56), Range(l - 8, l)>>
\* the elements of the sequence c at the indices in S, in the order of c
RECURSIVE SubList(_, _)
SubList(c, S) ==
    IF S = {} THEN <<>>
    ELSE LET m == CHOOSE x \in S : \A y \in S : y <= x
         IN  Append(SubList(c, S \ {m}), c[m])
\* What the differ can send for files of length l: non-empty ranges in
\* ascending order with at least one equal byte between two of them.
DiffLists(l) ==
    {SubList(CandidateDiffs(l), S) :
        S \in {T \in SUBSET (1..Len(CandidateDiffs(l))) : Cardinality(T) <= MaxDiffs}}

\* App::new and Layers::new with the diff view pushed as the bottom layer
InitApp ==
    /\ exit = FALSE
    /\ shown_data_height = 0
    /\ ctx_pos = 0
    /\ ctx_len \in FileLens
    /\ diffs = EmptyTree
    /\ current_diff_index = None
    /\ all_diffs_loaded = FALSE
    /\ merges_1_into_2 = EmptyTree
    /\ merges_2_into_1 = EmptyTree
    /\ leave_unmerged = EmptyTree
    /\ layers = <<DiffView>>
    /\ diff_rx \in {[queue |-> q, open |-> TRUE] : q \in DiffLists(ctx_len)}
    /\ phase = "draw"
    /\ aborted = ""
    /\ DifferIdle
    /\ TreeIdle
    /\ ThreadsIdle
    /\ LayersIdle
    /\ ApplyIdle

Running == ~exit /\ aborted = "" /\ apply_pc # "exited"

\* terminal.draw: the layers render bottom to top.  DiffView::render sets
\* shown_data_height from the height of the terminal and FileView::render
\* reads shown_data_height * 16 bytes at pos with read_exact_at(..).unwrap(),
\* which panics when the file ends before them.  A popup renders without
\* touching the context.
Draw(height) ==
    /\ Running
    /\ phase = "draw"
    /\ shown_data_height' = height
    /\ aborted' = IF ctx_pos + height * 16 > ctx_len
                  THEN "read_exact_at: UnexpectedEof" ELSE ""
    /\ phase' = "select"
    /\ UNCHANGED <<exit, ctx_pos, ctx_len, diffs, current_diff_index, all_diffs_loaded,
                   merges_1_into_2, merges_2_into_1, leave_unmerged, layers, diff_rx>>
    /\ UNCHANGED <<differVars, treeVars, threadVars, layerVars, applyVars>>

\* A select that takes the event whenever one is offered.
select_events_first ==
    IF event_tx # None THEN {"event"}
    ELSE IF diff_rx.open /\ (diff_rx.queue # <<>> \/ diff_thread # "running")
         THEN {"diff"} ELSE {}
\* sel.select(): the operations that are ready, of which it takes any one;
\* the diff channel is ready when it holds a range or is disconnected, the
\* event channel when the event thread offers an event
select_ready ==
    (IF diff_rx.open /\ (diff_rx.queue # <<>> \/ diff_thread # "running")
     THEN {"diff"} ELSE {})
    \cup (IF event_tx # None THEN {"event"} ELSE {})

\* A channel that hands out the message sent last.
recv_newest_first(queue) ==
    [msg |-> Last(queue), rest |-> SubSeq(queue, 1, Len(queue) - 1)]
\* op.recv on a channel that holds messages: the oldest one
recv(queue) == [msg |-> Head(queue), rest |-> Tail(queue)]

\* select() delivers a diff: self.diffs.append(diff)
RecvDiff ==
    /\ Running
    /\ phase = "select"
    /\ "diff" \in select_ready
    /\ diff_rx.open /\ diff_rx.queue # <<>>
    /\ LET r == tree_append(diffs, recv(diff_rx.queue).msg) IN
        /\ diffs' = r.ranges
        /\ aborted' = IF r.panic THEN "RangeTree::append assertion" ELSE ""
    /\ diff_rx' = [diff_rx EXCEPT !.queue = recv(@).rest]
    /\ phase' = "draw"
    /\ UNCHANGED <<exit, shown_data_height, ctx_pos, ctx_len, current_diff_index,
                   all_diffs_loaded, merges_1_into_2, merges_2_into_1, leave_unmerged,
                   layers>>
    /\ UNCHANGED <<differVars, treeVars, threadVars, layerVars, applyVars>>

\* select() finds the diff channel empty and disconnected: the diff thread
\* has ended, or has panicked, and dropped diff_tx
RecvDiffClosed ==
    /\ Running
    /\ phase = "select"
    /\ "diff" \in select_ready
    /\ diff_rx.open /\ diff_rx.queue = <<>>
    /\ diff_thread # "running"
    /\ all_diffs_loaded' = TRUE
    /\ diff_rx' = [diff_rx EXCEPT !.open = FALSE]
    /\ phase' = "draw"
    /\ UNCHANGED <<exit, shown_data_height, ctx_pos, ctx_len, diffs, current_diff_index,
                   merges_1_into_2, merges_2_into_1, leave_unmerged, layers, aborted>>
    /\ UNCHANGED <<differVars, treeVars, threadVars, layerVars, applyVars>>

\* App::handle_key_event: the key goes through the layer stack
App_handle_key_event(key) ==
    \E r \in {Layers_handle_key_event(build, layers, Ctx, key) : build \in Builds} :
          /\ exit' = r.ctx.exit
          /\ shown_data_height' = r.ctx.shown_data_height
          /\ ctx_pos' = r.ctx.pos
          /\ ctx_len' = r.ctx.len
          /\ diffs' = r.ctx.diffs
          /\ current_diff_index' = r.ctx.current_diff_index
          /\ all_diffs_loaded' = r.ctx.all_diffs_loaded
          /\ merges_1_into_2' = r.ctx.merges_1_into_2
          /\ merges_2_into_1' = r.ctx.merges_2_into_1
          /\ leave_unmerged' = r.ctx.leave_unmerged
          /\ layers' = r.layers
          /\ aborted' = r.aborted

\* select() delivers a key press (an event that is no key press is dropped
\* and leaves every variable as it is)
KeyEvent(key) ==
    /\ Running
    /\ phase = "select"
    /\ phase' = "draw"
    /\ UNCHANGED diff_rx
    /\ App_handle_key_event(key)
    /\ UNCHANGED <<differVars, treeVars, threadVars, layerVars, applyVars>>

NextApp ==
    \/ \E h \in Heights : Draw(h)
    \/ RecvDiff
    \/ RecvDiffClosed
    \/ \E key \in Keys : KeyEvent(key)

SpecApp == InitApp /\ [][NextApp]_vars

(***************************************************************************)
(* The application with its two worker threads (App::new, App::run): the   *)
(* diff thread runs the differ over the two files and sends every range    *)
(* through the unbounded diff channel; the event thread sends every        *)
(* terminal event through a channel of capacity 0.                         *)
(***************************************************************************)
\* diffs in the files of this specification, at most
MaxRunDiffs == 2
RunLens == {72}
RunHeights == {4}
\* the terminal events of this specification: key presses, and "Resize" for
\* every event that is no key press
RunKeys == {"n", ">", "=", "q", "a", "Left", "Enter"}
RunEvents == RunKeys \cup {"Resize"}

\* a file of length l of zero bytes, and one that differs from it exactly on
\* the ranges of ds
ZeroFile(l) == [i \in 1..l |-> 0]
FileDifferingOn(l, ds) ==
    [i \in 1..l |-> IF \E k \in 1..Len(ds) : ds[k].start <= i - 1 /\ i - 1 < ds[k].end
                    THEN 1 ELSE 0]
RunDiffLists(l) ==
    {SubList(CandidateDiffs(l), S) :
        S \in {T \in SUBSET (1..Len(CandidateDiffs(l))) : Cardinality(T) <= MaxRunDiffs}}

\* What a panic does to the process: the default of cargo unwinds the
\* panicking thread only, panic = "abort" ends the process.
PanicStrategies == {"unwind", "abort"}

\* The differ variables of a DiffIter::new(a2, b2) on the files a and b.
DiffIterNew(a, b) ==
    /\ fileA = a
    /\ fileB = b
    /\ strategy = "bytes"
    /\ pc = "idle"
    /\ start = 0
    /\ pos = 0
    /\ state = Equal(0, 0)
    /\ iter = 0
    /\ ma = [buf |-> <<>>, off |-> 0]
    /\ mb = [buf |-> <<>>, off |-> 0]
    /\ rdA = [off |-> 0, done |-> TRUE]
    /\ rdB = [off |-> 0, done |-> TRUE]
    /\ arx = <<>>
    /\ brx = <<>>
    /\ ta = <<>>
    /\ tb = <<>>
    /\ out = <<>>
    /\ ret = None
    /\ nones = 0

\* App::new: both threads spawned, nothing sent yet
InitRun ==
    /\ exit = FALSE
    /\ shown_data_height = 0
    /\ ctx_pos = 0
    /\ ctx_len \in RunLens
    /\ diffs = EmptyTree
    /\ current_diff_index = None
    /\ all_diffs_loaded = FALSE
    /\ merges_1_into_2 = EmptyTree
    /\ merges_2_into_1 = EmptyTree
    /\ leave_unmerged = EmptyTree
    /\ layers = <<DiffView>>
    /\ diff_rx = [queue |-> <<>>, open |-> TRUE]
    /\ phase = "draw"
    /\ aborted = ""
    /\ \E ds \in RunDiffLists(ctx_len) :
          DiffIterNew(ZeroFile(ctx_len), FileDifferingOn(ctx_len, ds))
    /\ diff_thread = "running"
    /\ event_tx = None
    /\ TreeIdle
    /\ LayersIdle
    /\ ApplyIdle

\* The diff thread takes the next range from the differ and sends it; when
\* the differ is exhausted the thread ends and diff_tx is dropped.
DiffThreadNext ==
    /\ Running
    /\ diff_thread = "running"
    /\ LET r == BytesNextFrom(fileA, fileB, state, iter) IN
        /\ state' = r.state
        /\ iter' = r.iter
        /\ ret' = r.ret
        /\ out' = out \o r.ret
        /\ nones' = IF r.ret = None THEN nones + 1 ELSE nones
        /\ diff_rx' = [diff_rx EXCEPT !.queue = @ \o r.ret]
        /\ diff_thread' = IF r.ret = None THEN "ended" ELSE "running"
    /\ UNCHANGED <<fileA, fileB, strategy, pc, start, pos, ma, mb, rdA, rdB, arx, brx, ta, tb>>
    /\ UNCHANGED <<exit, shown_data_height, ctx_pos, ctx_len, diffs, current_diff_index,
                   all_diffs_loaded, merges_1_into_2, merges_2_into_1, leave_unmerged,
                   layers, phase, aborted>>
    /\ UNCHANGED <<event_tx, treeVars, layerVars, applyVars>>

\* A read of the differ fails: a.unwrap() panics in the diff thread.  Under
\* panic = "unwind" the thread alone ends, dropping diff_tx; under
\* panic = "abort" the process ends.
DiffThreadReadError ==
    /\ Running
    /\ diff_thread = "running"
    /\ \E strat \in PanicStrategies :
          IF strat = "unwind"
          THEN diff_thread' = "panicked" /\ UNCHANGED aborted
          ELSE diff_thread' = "panicked" /\ aborted' = "differ: read error"
    /\ UNCHANGED <<exit, shown_data_height, ctx_pos, ctx_len, diffs, current_diff_index,
                   all_diffs_loaded, merges_1_into_2, merges_2_into_1, leave_unmerged,
                   layers, diff_rx, phase>>
    /\ UNCHANGED <<event_tx, differVars, treeVars, layerVars, applyVars>>

\* The event thread has read an event from the terminal and blocks sending
\* it: the channel has capacity 0.
EventThreadRead(e) ==
    /\ Running
    /\ event_tx = None
    /\ event_tx' = Some(e)
    /\ UNCHANGED <<diff_thread, appVars, differVars, treeVars, layerVars, applyVars>>

\* select() takes the event the event thread offers: a key press is handled,
\* any other event dropped
RecvEvent ==
    /\ Running
    /\ phase = "select"
    /\ "event" \in select_ready
    /\ event_tx # None
    /\ event_tx' = None
    /\ phase' = "draw"
    /\ UNCHANGED diff_rx
    /\ IF event_tx[1] \in Keys
       THEN App_handle_key_event(event_tx[1])
       ELSE UNCHANGED <<exit, shown_data_height, ctx_pos, ctx_len, diffs, current_diff_index,
                        all_diffs_loaded, merges_1_into_2, merges_2_into_1, leave_unmerged,
                        layers, aborted>>
    /\ UNCHANGED <<diff_thread, differVars, treeVars, layerVars, applyVars>>

NextRun ==
    \/ DiffThreadNext
    \/ DiffThreadReadError
    \/ \E e \in RunEvents : EventThreadRead(e)
    \/ \E h \in RunHeights : Draw(h)
    \/ RecvDiff
    \/ RecvDiffClosed
    \/ RecvEvent

SpecRun == InitRun /\ [][NextRun]_vars

\* The events of the specification with fairness: a key that moves the
\* viewport, the key that ends the loop, and an event that is no key press.
FairEvents == {"n", "q", "Resize"}

NextRunFair ==
    \/ DiffThreadNext
    \/ DiffThreadReadError
    \/ \E e \in FairEvents : EventThreadRead(e)
    \/ \E h \in RunHeights : Draw(h)
    \/ RecvDiff
    \/ RecvDiffClosed
    \/ RecvEvent

\* The loop always draws and selects again; select() takes a random one of
\* the operations that are ready, so an operation ready again and again is
\* taken in the end.
SpecRunFair ==
    /\ InitRun
    /\ [][NextRunFair]_vars
    /\ WF_vars(\E h \in RunHeights : Draw(h))
    /\ SF_vars(RecvDiff)
    /\ SF_vars(RecvDiffClosed)
    /\ SF_vars(RecvEvent)

(***************************************************************************)
(* apply_changes (src/src/apply.rs), called as the YES callback of the     *)
(* apply popup while the diff thread may still run.                        *)
(***************************************************************************)
\* length of the files of this specification
ApplyLen == 5
\* file1 is all zeros or all ones, file2 any file of the same length
ApplyFiles1 == {[i \in 1..ApplyLen |-> v] : v \in ByteVals}
ApplyFiles2 == [1..ApplyLen -> ByteVals]

\* The differ after j calls of next() on the files a and b, from the state
\* st at byte pair i with the ranges in yielded so far.
RECURSIVE DifferAfter(_, _, _, _, _, _)
DifferAfter(a, b, st, i, yielded, j) ==
    IF j = 0 THEN [state |-> st, iter |-> i, out |-> yielded, ret |-> None, ended |-> FALSE]
    ELSE LET r == BytesNextFrom(a, b, st, i) IN
         IF r.ret = None
         THEN [state |-> r.state, iter |-> r.iter, out |-> yielded, ret |-> None,
               ended |-> TRUE]
         ELSE IF j = 1
         THEN [state |-> r.state, iter |-> r.iter, out |-> yielded \o r.ret,
               ret |-> r.ret, ended |-> FALSE]
         ELSE DifferAfter(a, b, r.state, r.iter, yielded \o r.ret, j - 1)

\* the ranges of ds that the decision d puts under the tree named tag
RECURSIVE Under(_, _, _)
Under(ds, d, tag) ==
    IF ds = <<>> THEN <<>>
    ELSE LET rest == Under(SubSeq(ds, 1, Len(ds) - 1), d, tag) IN
         IF d[Len(ds)] = tag THEN Append(rest, Last(ds)) ELSE rest

\* Decisions that put a diff under both merge trees at once.
DecisionsOverlapping(ds) ==
    {[merges_1_into_2 |-> Under(ds, d, "1into2") \o Under(ds, d, "both"),
      merges_2_into_1 |-> Under(ds, d, "2into1") \o Under(ds, d, "both"),
      leave_unmerged |-> Under(ds, d, "unmerged")] :
        d \in [1..Len(ds) -> {"1into2", "2into1", "unmerged", "none", "both"}]}

\* What the keys '>', '<', '=' and '!' can have made of the three trees: every
\* diff under one of them, or under none.
Decisions(ds) ==
    {[merges_1_into_2 |-> Under(ds, d, "1into2"),
      merges_2_into_1 |-> Under(ds, d, "2into1"),
      leave_unmerged |-> Under(ds, d, "unmerged")] :
        d \in [1..Len(ds) -> {"1into2", "2into1", "unmerged", "none"}]}

\* Enter on YES in the apply popup: the callback |ctx| apply_changes(ctx) is
\* about to run.  The diff thread has made any number of calls of next(),
\* the ranges it sent are received, and they are classified in any way.
InitApply ==
    /\ fileA \in ApplyFiles1
    /\ fileB \in ApplyFiles2
    /\ \E j \in 0..(Len(BytesAll(fileA, fileB)) + 1) :
          LET w == DifferAfter(fileA, fileB, Equal(0, 0), 0, <<>>, j) IN
            /\ state = w.state
            /\ iter = w.iter
            /\ out = w.out
            /\ ret = w.ret
            /\ nones = IF w.ended THEN 1 ELSE 0
            /\ diff_thread = IF w.ended THEN "ended" ELSE "running"
            /\ diffs = w.out
            /\ all_diffs_loaded \in (IF w.ended THEN BOOLEAN ELSE {FALSE})
    /\ diff_rx = [queue |-> <<>>, open |-> ~all_diffs_loaded]
    /\ \E d \in Decisions(diffs) :
          /\ merges_1_into_2 = d.merges_1_into_2
          /\ merges_2_into_1 = d.merges_2_into_1
          /\ leave_unmerged = d.leave_unmerged
    /\ strategy = "bytes"
    /\ pc = "idle"
    /\ start = 0
    /\ pos = 0
    /\ ma = [buf |-> <<>>, off |-> 0]
    /\ mb = [buf |-> <<>>, off |-> 0]
    /\ rdA = [off |-> 0, done |-> TRUE]
    /\ rdB = [off |-> 0, done |-> TRUE]
    /\ arx = <<>>
    /\ brx = <<>>
    /\ ta = <<>>
    /\ tb = <<>>
    /\ exit = FALSE
    /\ shown_data_height = 0
    /\ ctx_pos = 0
    /\ ctx_len = ApplyLen
    /\ current_diff_index = None
    /\ layers = <<DiffView, [ApplyChangesPopup EXCEPT !.yes_selected = TRUE]>>
    /\ phase = "select"
    /\ aborted = ""
    /\ event_tx = None
    /\ TreeIdle
    /\ LayersIdle
    /\ ApplyIdle

\* what apply_changes leaves alone
ApplyFrame ==
    /\ UNCHANGED <<strategy, pc, start, pos, state, iter, ma, mb, rdA, rdB, arx, brx,
                   ta, tb, out, ret, nones>>
    /\ UNCHANGED <<exit, shown_data_height, ctx_pos, ctx_len, diffs, current_diff_index,
                   all_diffs_loaded, leave_unmerged, layers, diff_rx, phase, aborted>>
    /\ UNCHANGED <<treeVars, threadVars, layerVars>>

\* apply_changes up to the first loop: both merge trees are taken out of the
\* context
apply_changes_begin ==
    /\ apply_pc = "idle"
    /\ aborted = ""
    /\ pre_apply' = [file1 |-> fileA, file2 |-> fileB,
                     merges_1_into_2 |-> merges_1_into_2,
                     merges_2_into_1 |-> merges_2_into_1,
                     leave_unmerged |-> leave_unmerged]
    /\ apply_locals' = [merges_1_into_2 |-> merges_1_into_2,
                        merges_2_into_1 |-> merges_2_into_1,
                        i |-> 0, done |-> 0, pos |-> None, writes |-> 0]
    /\ merges_1_into_2' = EmptyTree
    /\ merges_2_into_1' = EmptyTree
    /\ apply_pc' = "left"
    /\ UNCHANGED <<fileA, fileB>>
    /\ ApplyFrame

\* the ranges of the loop apply_changes is in
ApplyRanges ==
    IF apply_pc = "left" THEN apply_locals.merges_2_into_1
    ELSE apply_locals.merges_1_into_2

\* the loop takes its next range and calls copy: let mut pos = range.start
copy_begin ==
    /\ apply_pc \in {"left", "right"}
    /\ apply_locals.pos = None
    /\ apply_locals.i < Len(ApplyRanges)
    /\ apply_locals' = [apply_locals EXCEPT !.pos = Some(ApplyRanges[apply_locals.i + 1].start)]
    /\ UNCHANGED <<fileA, fileB, apply_pc, pre_apply, merges_1_into_2, merges_2_into_1>>
    /\ ApplyFrame

\* A loop that stops one byte before the end of the range.
copy_continues_stops_early(p, range) == p + 1 < range.end
\* copy: while pos < range.end
copy_continues(p, range) == p < range.end

\* A chunk that is always the whole buffer.
copy_size_whole_buffer(p, range) == BufCap
\* copy: let size = buf.len().min((range.end - pos) as usize)
copy_size(p, range) == Min(BufCap, range.end - p)

\* from.read_at(pos, &mut buf[..size]): the counts it may return, 0 at or
\* after the end of the file only, otherwise at least 1 and at most what is
\* asked for and what the file holds from pos on
read_at_counts(file, p, size) ==
    IF p >= Len(file) \/ size = 0 THEN {0} ELSE 1..Min(size, Len(file) - p)
\* from.read_at(pos, &mut buf[..size]): the bytes read, `read` of them
read_at(file, p, read) == SubSeq(file, p + 1, p + read)
\* A write that does not reach the file.
write_all_at_discards(file, p, bytes) == file
\* to.write_all_at(pos, &buf[..read]): the file after the write
write_all_at(file, p, bytes) ==
    [o \in 1..Len(file) |->
        IF p + 1 <= o /\ o <= p + Len(bytes) THEN bytes[o - p] ELSE file[o]]

\* one turn of the loop of copy: read_at may read fewer bytes than asked for
copy_chunk(read) ==
    /\ apply_pc \in {"left", "right"}
    /\ apply_locals.pos # None
    /\ LET p == apply_locals.pos[1]
           range == ApplyRanges[apply_locals.i + 1]
           size == copy_size(p, range)
           from == IF apply_pc = "left" THEN fileB ELSE fileA
       IN  /\ copy_continues(p, range)
           /\ read \in read_at_counts(from, p, size)
           /\ IF apply_pc = "left"
              THEN /\ fileA' = write_all_at(fileA, p, read_at(fileB, p, read))
                   /\ UNCHANGED fileB
              ELSE /\ fileB' = write_all_at(fileB, p, read_at(fileA, p, read))
                   /\ UNCHANGED fileA
           /\ apply_locals' = [apply_locals EXCEPT !.pos = Some(p + read),
                                                   !.writes = @ + 1]
    /\ UNCHANGED <<apply_pc, pre_apply, merges_1_into_2, merges_2_into_1>>
    /\ ApplyFrame

\* copy returns: done += 1, and the loop goes on
copy_return ==
    /\ apply_pc \in {"left", "right"}
    /\ apply_locals.pos # None
    /\ ~copy_continues(apply_locals.pos[1], ApplyRanges[apply_locals.i + 1])
    /\ apply_locals' = [apply_locals EXCEPT !.pos = None, !.i = @ + 1, !.done = @ + 1]
    /\ UNCHANGED <<fileA, fileB, apply_pc, pre_apply, merges_1_into_2, merges_2_into_1>>
    /\ ApplyFrame

\* the first loop is over: the second one starts
apply_left_done ==
    /\ apply_pc = "left"
    /\ apply_locals.pos = None
    /\ apply_locals.i = Len(ApplyRanges)
    /\ apply_pc' = "right"
    /\ apply_locals' = [apply_locals EXCEPT !.i = 0]
    /\ UNCHANGED <<fileA, fileB, pre_apply, merges_1_into_2, merges_2_into_1>>
    /\ ApplyFrame

\* the second loop is over: std::process::exit(0)
apply_exit ==
    /\ apply_pc = "right"
    /\ apply_locals.pos = None
    /\ apply_locals.i = Len(ApplyRanges)
    /\ apply_pc' = "exited"
    /\ UNCHANGED <<fileA, fileB, apply_locals, pre_apply, merges_1_into_2, merges_2_into_1>>
    /\ ApplyFrame

NextApply ==
    \/ apply_changes_begin
    \/ copy_begin
    \/ \E read \in 0..BufCap : copy_chunk(read)
    \/ copy_return
    \/ apply_left_done
    \/ apply_exit
    \/ DiffThreadNext

SpecApply == InitApply /\ [][NextApply]_vars

\* apply_changes runs on the main thread, which goes on executing until it
\* calls exit; the diff thread may or may not be scheduled.
SpecApplyFair ==
    /\ InitApply
    /\ [][NextApply]_vars
    /\ WF_vars(apply_changes_begin \/ copy_begin \/ copy_return
                  \/ apply_left_done \/ apply_exit
                  \/ \E read \in 0..BufCap : copy_chunk(read))

(***************************************************************************)
(* The layer stack on its own (src/src/layers.rs), with layers that may    *)
(* request any pushes and pops while they handle a key or render.          *)
(***************************************************************************)
\* layers on the stack, at most
MaxLayers == 3
\* requests one LayerCtx records, at most
MaxRequests == 2
LayerKinds == {DiffView, QuitPopup, ApplyChangesPopup}

\* the parts of the application the layer stack leaves alone
LayersFrame ==
    /\ UNCHANGED <<exit, shown_data_height, ctx_pos, ctx_len, diffs, current_diff_index,
                   all_diffs_loaded, merges_1_into_2, merges_2_into_1, leave_unmerged,
                   diff_rx, phase, aborted>>
    /\ UNCHANGED <<differVars, treeVars, threadVars, applyVars>>

\* the height of the stack once the changes are applied to it, at most
HeightAfter(ls, changes) ==
    Len(ls) + Cardinality({i \in 1..Len(changes) : changes[i].change = "Push"})

\* Layers::new
InitLayers ==
    /\ AppIdle
    /\ LayersIdle
    /\ DifferIdle
    /\ TreeIdle
    /\ ThreadsIdle
    /\ ApplyIdle

\* Layers::push_layer, Layers::pop_layer: called on the stack itself
Layers_push_layer(layer) ==
    /\ layer_pc = "idle"
    /\ Len(layers) < MaxLayers
    /\ layers' = Append(layers, layer)
    /\ UNCHANGED layerVars
    /\ LayersFrame
Layers_pop_layer ==
    /\ layer_pc = "idle"
    /\ layers # <<>>
    /\ layers' = SubSeq(layers, 1, Len(layers) - 1)
    /\ UNCHANGED layerVars
    /\ LayersFrame

\* Layers::handle_key_event up to the call of the topmost layer's handler: a
\* LayerCtx with an empty change-list (an empty stack returns at once)
handle_key_event_begin ==
    /\ layer_pc = "idle"
    /\ layers # <<>>
    /\ layer_pc' = "handle_key_event"
    /\ layer_changes' = <<>>
    /\ UNCHANGED <<layers, render_index>>
    /\ LayersFrame

\* LayerCtx::push_layer, LayerCtx::pop_layer: the layer that handles the key,
\* or renders, records a request
LayerCtx_push_layer(layer) ==
    /\ layer_pc # "idle"
    /\ layer_pc = "render" => render_index < Len(layers)
    /\ Len(layer_changes) < MaxRequests
    /\ HeightAfter(layers, layer_changes) < MaxLayers
    /\ layer_changes' = Append(layer_changes, Push(layer))
    /\ UNCHANGED <<layers, layer_pc, render_index>>
    /\ LayersFrame
LayerCtx_pop_layer ==
    /\ layer_pc # "idle"
    /\ layer_pc = "render" => render_index < Len(layers)
    /\ Len(layer_changes) < MaxRequests
    /\ layer_changes' = Append(layer_changes, Pop)
    /\ UNCHANGED <<layers, layer_pc, render_index>>
    /\ LayersFrame

\* Layers::handle_key_event once the handler has returned:
\* self.apply_layer_changes(ctx.layer_changes)
handle_key_event_end ==
    /\ layer_pc = "handle_key_event"
    /\ layers' = apply_layer_changes(layers, layer_changes)
    /\ layer_changes' = <<>>
    /\ layer_pc' = "idle"
    /\ UNCHANGED render_index
    /\ LayersFrame

\* render: let mut layer_changes = Vec::new(), before the loop over the layers
render_begin ==
    /\ layer_pc = "idle"
    /\ layer_pc' = "render"
    /\ layer_changes' = <<>>
    /\ render_index' = 0
    /\ UNCHANGED layers
    /\ LayersFrame

\* render: the render of one layer has returned and handed its change-list on
render_layer ==
    /\ layer_pc = "render"
    /\ render_index < Len(layers)
    /\ render_index' = render_index + 1
    /\ UNCHANGED <<layers, layer_pc, layer_changes>>
    /\ LayersFrame

\* render after the loop: self.apply_layer_changes(layer_changes)
render_end ==
    /\ layer_pc = "render"
    /\ render_index = Len(layers)
    /\ layers' = apply_layer_changes(layers, layer_changes)
    /\ layer_changes' = <<>>
    /\ layer_pc' = "idle"
    /\ render_index' = 0
    /\ LayersFrame

NextLayers ==
    \/ \E layer \in LayerKinds : Layers_push_layer(layer)
    \/ Layers_pop_layer
    \/ handle_key_event_begin
    \/ \E layer \in LayerKinds : LayerCtx_push_layer(layer)
    \/ LayerCtx_pop_layer
    \/ handle_key_event_end
    \/ render_begin
    \/ render_layer
    \/ render_end

SpecLayers == InitLayers /\ [][NextLayers]_vars


(***************************************************************************)
(* Properties of the differ                                                *)
(***************************************************************************)
\* the offsets at which the two files differ
DiffOffsets == {o \in 0..(Len(fileA) - 1) : fileA[o + 1] # fileB[o + 1]}
\* the offsets of the half-open range r
Offsets(r) == r.start..(r.end - 1)
\* the offsets covered by the ranges of a sequence
Covered(s) == UNION {Offsets(s[i]) : i \in 1..Len(s)}
\* the iterator has returned None at least once
Exhausted == nones >= 1
LastByteDiffers == Len(fileA) > 0 /\ fileA[Len(fileA)] # fileB[Len(fileB)]
IsPrefix(s, t) == Len(s) <= Len(t) /\ SubSeq(t, 1, Len(s)) = s

\* C1: the ranges BytesDiffIter yields cover exactly the offsets at which the
\* two files differ: every offset in a yielded range is a differing offset,
\* once the iterator is exhausted every differing offset is in a yielded
\* range, and the yielded ranges are pairwise disjoint with strictly
\* increasing starts.
C1_BytesCoverExactly ==
    strategy = "bytes" =>
        /\ \A i \in 1..Len(out) : Offsets(out[i]) \subseteq DiffOffsets
        /\ \A i, j \in 1..Len(out) :
              i < j => /\ out[i].start < out[j].start
                       /\ Offsets(out[i]) \cap Offsets(out[j]) = {}
        /\ Exhausted => Covered(out) = DiffOffsets

\* BytesDiffIter has run to its end over files with two separate runs of
\* differing bytes and at least one equal byte.
C1_Witness ==
    /\ strategy = "bytes"
    /\ Exhausted
    /\ Len(out) >= 2
    /\ DiffOffsets # 0..(Len(fileA) - 1)

\* C2: whatever the sizes of the reads, each strategy yields the ranges the
\* byte-at-a-time differ yields on the same files: at every moment the ranges
\* yielded so far are a prefix of that sequence, and once the iterator is
\* exhausted they are that sequence.
C2_SameRangesAsBytes ==
    /\ IsPrefix(out, BytesAll(fileA, fileB))
    /\ Exhausted => out = BytesAll(fileA, fileB)

\* The buffered scan has run to its end on files with two runs of differing
\* bytes, the two buffers having been filled by reads of different sizes.
C2_Witness ==
    /\ strategy = "memchr"
    /\ Exhausted
    /\ Len(out) >= 2
    /\ Len(fileA) = MaxLen
    /\ ma.off = Len(fileA)
    /\ BufCap >= 2

\* C3: when the files differ at their last byte, the last range an exhausted
\* iterator has yielded ends at the files' length, and no call made after the
\* first None yields a range (every such call returns None).
C3_TailRangeAtEof ==
    (LastByteDiffers /\ Exhausted) =>
        /\ out # <<>>
        /\ Last(out).end = Len(fileA)
        /\ ret = None

\* The threaded differ was called again after it had returned None, on files
\* that differ at their last byte.
C3_Witness ==
    /\ strategy = "threaded"
    /\ LastByteDiffers
    /\ nones >= 2
    /\ out # <<>>

(***************************************************************************)
(* Properties of the range tree                                            *)
(***************************************************************************)
\* the ranges are in ascending start order
AscendingStart(rs) == \A i, j \in 1..Len(rs) : i < j => rs[i].start <= rs[j].start
\* the invariants of a RangeTree: every range has start <= end, the ranges are
\* in ascending start order, a range ends before the next one starts
TreeOk(rs) ==
    /\ \A i \in 1..Len(rs) : rs[i].start <= rs[i].end
    /\ AscendingStart(rs)
    /\ \A i, j \in 1..Len(rs) : i < j => rs[i].end <= rs[j].start
\* two ranges overlap: each starts before the other ends
Overlaps(r, q) == r.start < q.end /\ q.start < r.end
Stored(rs, r) == \E i \in 1..Len(rs) : rs[i] = r
\* the subsequence of the ranges of rs that satisfy Keep
SelectRanges(rs, Keep(_)) == SelectSeq(rs, Keep)

\* C4: in every state reached by append, insert and remove_range_exact calls
\* none of which aborted, the stored ranges are in ascending start order, each
\* has start <= end, a range ends before any later one starts, and contains(e)
\* is true exactly when the range at lookup_index(e) exists and contains e.
C4_TreeInvariants ==
    ~panicked =>
        /\ TreeOk(ranges)
        /\ lastOp.name = "contains" =>
              LET g == get(ranges, lookup_index(ranges, lastOp.arg)) IN
              lastOp.ret = (g # None /\ range_contains(g[1], lastOp.arg))

\* C5: insert(r) aborts, leaving the tree as it was, whenever r overlaps a
\* stored range; otherwise it does not abort and the tree holds the previous
\* ranges plus r, in ascending start order.
C5_InsertContract ==
    [][\A r \in RangeArgs : insert(r) =>
          IF \E i \in 1..Len(ranges) : Overlaps(r, ranges[i])
          THEN panicked' /\ ranges' = ranges
          ELSE /\ ~panicked'
               /\ \E k \in 0..Len(ranges) : ranges' = vec_insert(ranges, k, r)
               /\ AscendingStart(ranges')]_vars

\* the tree of the documentation test of lookup_index, and what the test asserts
DocLookupTree == <<Range(1, 2), Range(3, 4), Range(4, 8), Range(9, 10)>>
DocLookup ==
    [e \in DocElems |->
        CASE e \in {0, 1} -> 0
          [] e \in {2, 3} -> 1
          [] e \in {4, 7} -> 2
          [] e \in {8, 9} -> 3
          [] OTHER -> 4]

\* C6: on a tree of sorted non-overlapping ranges, lookup_index(e) is the
\* index of the stored range containing e when there is one, and otherwise the
\* index of the first stored range that starts above e, or the tree's length
\* when there is none (as in the documentation test of lookup_index).
C6_LookupIndex ==
    (lastOp.name = "lookup_index" /\ TreeOk(ranges)) =>
        LET e == lastOp.arg
            holders == {i \in 0..(Len(ranges) - 1) : range_contains(ranges[i + 1], e)}
            above == {i \in 0..(Len(ranges) - 1) : e < ranges[i + 1].start}
        IN  /\ lastOp.ret \in 0..Len(ranges)
            /\ holders # {} => holders = {lastOp.ret}
            /\ (holders = {} /\ above # {}) => lastOp.ret = SetMin(above)
            /\ (holders = {} /\ above = {}) => lastOp.ret = Len(ranges)
            /\ (ranges = DocLookupTree /\ e \in DocElems)
                  => lastOp.ret = DocLookup[e]

\* lookup_index has found the range containing the element in the middle of
\* a tree that also holds an empty range
C6_Witness ==
    /\ lastOp.name = "lookup_index"
    /\ TreeOk(ranges)
    /\ Len(ranges) = 3
    /\ lastOp.ret = 1
    /\ range_contains(ranges[2], lastOp.arg)
    /\ \E i \in 1..3 : ranges[i].start = ranges[i].end

\* C7: contains(e) is true exactly when some stored range R has
\* R.start <= e < R.end.
C7_ContainsIff ==
    lastOp.name = "contains" =>
        lastOp.ret = (\E i \in 1..Len(ranges) : range_contains(ranges[i], lastOp.arg))

\* C8: for a range r with start <= end, remove_range_exact(r) returns true and
\* removes the stored range exactly when a range with the start and the end of
\* r is stored; otherwise it returns false and leaves the tree as it was.
\* Stated here for the trees that satisfy the invariants of a RangeTree.
C8_RemoveExact ==
    [][\A r \in RangeArgs :
          (r.start <= r.end /\ TreeOk(ranges) /\ remove_range_exact(r)) =>
              IF Stored(ranges, r)
              THEN /\ lastOp'.ret = TRUE
                   /\ \E k \in 0..(Len(ranges) - 1) :
                         ranges[k + 1] = r /\ ranges' = vec_remove(ranges, k)
              ELSE /\ lastOp'.ret = FALSE
                   /\ ranges' = ranges]_vars

\* the iterator of the last ranges_touching call has returned None
CursorExhausted == lastOp.name = "ranges_touching" /\ lastOp.nones >= 1
DocTree == <<Range(0, 2), Range(3, 4), Range(4, 8), Range(9, 10)>>

\* C9, as the specification states it: ranges_touching(r) yields, in order,
\* exactly the stored ranges whose start lies in the half-open [r.start, r.end).
\* Stated here for the trees that satisfy the invariants of a RangeTree.
C9_TouchingHalfOpen ==
    (CursorExhausted /\ TreeOk(ranges)) =>
        LET InQuery(q) == lastOp.arg.start <= q.start /\ q.start < lastOp.arg.end
        IN  lastOp.ret = SelectRanges(ranges, InQuery)

\* C9, amended: ranges_touching(r) yields, in storage order, the stored ranges
\* from index lookup_index(r.start) on whose start is <= r.end, up to the first
\* one that starts after r.end; on a tree of sorted non-overlapping ranges
\* these are exactly the stored ranges R with R.end > r.start and
\* R.start <= r.end.
C9_TouchingAmended ==
    CursorExhausted =>
        LET q == lastOp.arg
            first == lookup_index(ranges, q.start)
            stop == {i \in first..(Len(ranges) - 1) : ranges[i + 1].start > q.end}
            last == IF stop = {} THEN Len(ranges) ELSE SetMin(stop)
            Touches(x) == x.end > q.start /\ x.start <= q.end
        IN  /\ lastOp.ret = SubSeq(ranges, first + 1, last)
            /\ TreeOk(ranges) => lastOp.ret = SelectRanges(ranges, Touches)

\* the query 4..9 on the tree of the documentation has yielded 4..8 and then
\* 9..10, which starts at the end of the query
C9_Witness ==
    /\ CursorExhausted
    /\ ranges = DocTree
    /\ lastOp.arg = Range(4, 9)
    /\ lastOp.ret = <<Range(4, 8), Range(9, 10)>>

\* C10: the iterator of ranges_touching(r) starts at index lookup_index(r.start)
\* and yields the stored ranges that follow one after the other for as long as
\* their start is <= r.end; once it has returned None it yields nothing more.
\* On the tree 0..2, 3..4, 4..8, 9..10 the query 4..9 yields 4..8 and 9..10,
\* and the query 2..8 yields 3..4 and 4..8 (not 0..2, which ends at 2).
C10_TouchingCursor ==
    lastOp.name = "ranges_touching" =>
        LET q == lastOp.arg
            first == lookup_index(ranges, q.start)
            n == Len(lastOp.ret)
        IN  /\ cursor # None
            /\ cursor[1].index = first + n
            /\ lastOp.ret = SubSeq(ranges, first + 1, first + n)
            /\ \A k \in 1..n : lastOp.ret[k].start <= q.end
            /\ lastOp.nones >= 1 =>
                  \/ first + n >= Len(ranges)
                  \/ ranges[first + n + 1].start > q.end
            /\ (lastOp.nones >= 1 /\ ranges = DocTree /\ q = Range(4, 9))
                  => lastOp.ret = <<Range(4, 8), Range(9, 10)>>
            /\ (lastOp.nones >= 1 /\ ranges = DocTree /\ q = Range(2, 8))
                  => lastOp.ret = <<Range(3, 4), Range(4, 8)>>

\* the query 2..8 on the tree of the documentation has been asked for more
\* after its first None
C10_Witness ==
    /\ lastOp.name = "ranges_touching"
    /\ lastOp.nones >= 2
    /\ ranges = DocTree
    /\ lastOp.arg = Range(2, 8)
    /\ Len(lastOp.ret) = 2

(***************************************************************************)
(* Properties of the interactive application                               *)
(***************************************************************************)
\* the diff view is the layer that receives the keys
DiffViewOnTop == layers # <<>> /\ Last(layers).kind = "DiffView"
\* a popup is the layer that receives the keys
PopupOnTop == layers # <<>> /\ Last(layers).kind # "DiffView"
\* the range of the current diff, if a diff is selected
CurrentDiff ==
    IF current_diff_index = None THEN None ELSE get(diffs, current_diff_index[1])
\* n rounded up to a multiple of 16
RoundUp16(n) == ((n + 15) \div 16) * 16
\* n rounded down to a multiple of 16
RoundDown16(n) == n - (n % 16)
NavigationKeys == {"Down", "Up", "PageDown", "PageUp", "n", "N"}

\* C11: in every reachable state pos is a multiple of 16, and no run ends in
\* a failed alignment assertion of decrease_pos, increase_pos or center_diff.
C11_PosAligned ==
    /\ ctx_pos % 16 = 0
    /\ aborted # "assert_eq pos % 16"

\* the viewport has been moved down to its last position in a file whose
\* length is no multiple of 16, after a diff was selected
C11_Witness ==
    /\ aborted = ""
    /\ ctx_len % 16 # 0
    /\ shown_data_height = 2
    /\ ctx_pos = RoundDown16(ctx_len - 32) + 16
    /\ current_diff_index # None

\* C12: after every key of the diff view (the loop is about to draw again),
\* pos + shown_data_height * 16 does not exceed len rounded up to a multiple
\* of 16.
C12_ViewportWithinFile ==
    (phase = "draw" /\ aborted = "") =>
        ctx_pos + shown_data_height * 16 <= RoundUp16(ctx_len)

\* the ranges stored in a tree
RangesOf(rs) == {rs[i] : i \in 1..Len(rs)}
\* the classification tree a key files the current diff under
TargetTree(key) ==
    CASE key = ">" -> "merges_1_into_2"
      [] key = "<" -> "merges_2_into_1"
      [] key = "=" -> "leave_unmerged"
      [] OTHER -> "none"

\* C13: in every reachable state no range is stored in more than one of
\* merges_1_into_2, merges_2_into_1 and leave_unmerged.
C13_TreesDisjoint ==
    /\ RangesOf(merges_1_into_2) \cap RangesOf(merges_2_into_1) = {}
    /\ RangesOf(merges_1_into_2) \cap RangesOf(leave_unmerged) = {}
    /\ RangesOf(merges_2_into_1) \cap RangesOf(leave_unmerged) = {}

\* three diffs have been classified, one under each tree
C13_Witness ==
    /\ aborted = ""
    /\ Len(merges_1_into_2) = 1
    /\ Len(merges_2_into_1) = 1
    /\ Len(leave_unmerged) = 1

\* C14: with a current diff selected, a key '>', '<', '=' or '!' handled by
\* the diff view does not abort and leaves the range of that diff stored in the
\* tree of the key ('!': in none) and in neither other tree, whatever was
\* stored before.
C14_ClassifyAnyPrior ==
    [][\A key \in ClassifyKeys :
          (KeyEvent(key) /\ DiffViewOnTop /\ CurrentDiff # None) =>
              /\ aborted' = ""
              /\ Stored(merges_1_into_2', CurrentDiff[1]) <=> TargetTree(key) = "merges_1_into_2"
              /\ Stored(merges_2_into_1', CurrentDiff[1]) <=> TargetTree(key) = "merges_2_into_1"
              /\ Stored(leave_unmerged', CurrentDiff[1]) <=> TargetTree(key) = "leave_unmerged"]_vars

\* C15: with k >= 1 diffs discovered, 'n' handled by the diff view moves
\* current_diff_index from Some(i) to Some((i + 1) mod k) and from None to
\* Some(0); 'N' moves it from Some(i) to Some(i - 1), and from Some(0) and
\* from None to Some(k - 1).
C15_IndexWraps ==
    [][(DiffViewOnTop /\ Len(diffs) >= 1) =>
          /\ KeyEvent("n") =>
                current_diff_index' =
                    IF current_diff_index = None THEN Some(0)
                    ELSE Some((current_diff_index[1] + 1) % Len(diffs))
          /\ KeyEvent("N") =>
                current_diff_index' =
                    IF current_diff_index = None \/ current_diff_index = Some(0)
                    THEN Some(Len(diffs) - 1)
                    ELSE Some(current_diff_index[1] - 1)]_vars

\* With three diffs the first one is selected again after the last one was
\* selected and classified.
C15_Witness ==
    /\ aborted = ""
    /\ Len(diffs) = 3
    /\ current_diff_index = Some(0)
    /\ Stored(leave_unmerged, diffs[3])
    /\ Stored(merges_1_into_2, diffs[1])

\* C16: after 'n' or 'N' has selected a diff [start, end) and has not aborted:
\* if end - start <= shown_data_height * 16 - 48, pos is start minus half of
\* (shown_data_height * 16 - length), clamped at 0, else pos is start - 32,
\* clamped at 0; either rounded down to a multiple of 16; and start lies in
\* [pos, pos + shown_data_height * 16).
C16_Centering ==
    [][\A key \in {"n", "N"} :
          (KeyEvent(key) /\ DiffViewOnTop /\ Len(diffs) >= 1) =>
              LET range == diffs[current_diff_index'[1] + 1]
                  length == range.end - range.start
                  bytes_shown == shown_data_height * 16
                  target == IF length <= bytes_shown - 48
                            THEN saturating_sub(range.start, (bytes_shown - length) \div 2)
                            ELSE saturating_sub(range.start, 32)
              IN  /\ aborted' = ""
                  /\ ctx_pos' = RoundDown16(target)
                  /\ ctx_pos' <= range.start
                  /\ range.start < ctx_pos' + bytes_shown]_vars

\* some diff is classified, under any of the three trees
AnyClassified ==
    merges_1_into_2 # <<>> \/ merges_2_into_1 # <<>> \/ leave_unmerged # <<>>
\* the layers without the topmost one
Popped(ls) == SubSeq(ls, 1, Len(ls) - 1)

\* C17: 'q' handled by the diff view pushes the quit popup and leaves exit
\* unset whenever one of the three trees holds a classification; it sets exit,
\* pushing nothing, only when none of them does.
C17_QuitAsksWhenClassified ==
    [][(DiffViewOnTop /\ KeyEvent("q")) =>
          IF AnyClassified
          THEN exit' = FALSE /\ layers' = Append(layers, QuitPopup)
          ELSE exit' = TRUE /\ layers' = layers]_vars

\* C18: Enter handled by a popup on which YES is selected does not abort the
\* program, pops the popup, and runs the YES callback: exit is set for the
\* quit popup.
C18_EnterOnYesCommits ==
    [][(PopupOnTop /\ Last(layers).yes_selected /\ KeyEvent("Enter")) =>
          /\ aborted' = ""
          /\ layers' = Popped(layers)
          /\ Last(layers).kind = "Quit?" => exit' = TRUE]_vars

\* what a key handled by a popup must leave alone: the whole context
CtxUnchanged ==
    UNCHANGED <<exit, shown_data_height, ctx_pos, ctx_len, diffs, current_diff_index,
                all_diffs_loaded, merges_1_into_2, merges_2_into_1, leave_unmerged>>

\* C19: a popup is pushed with NO selected; Left and Right handled by a popup
\* toggle its selection and nothing else; Enter on NO, Esc and 'q' pop the
\* popup, and only it, without aborting and without changing exit, the
\* classification trees or anything else of the context.
C19_PopupCancels ==
    [][/\ Len(layers') > Len(layers) =>
             /\ layers' = Append(layers, Last(layers'))
             /\ Last(layers').yes_selected = FALSE
       /\ \A key \in {"Left", "Right"} :
             (PopupOnTop /\ KeyEvent(key)) =>
                 /\ layers' = [layers EXCEPT ![Len(layers)].yes_selected = ~@]
                 /\ aborted' = ""
                 /\ CtxUnchanged
       /\ \A key \in {"Enter", "Esc", "q"} :
             (PopupOnTop /\ (key = "Enter" => ~Last(layers).yes_selected)
                /\ KeyEvent(key)) =>
                 /\ layers' = Popped(layers)
                 /\ aborted' = ""
                 /\ CtxUnchanged]_vars

\* the quit popup is open, YES selected on it by a Left or Right
C19_Witness ==
    /\ aborted = ""
    /\ Len(layers) = 2
    /\ layers[2].kind = "Quit?"
    /\ layers[2].yes_selected
    /\ phase = "draw"

\* C20: while a popup is on the stack a key reaches that popup only: pos,
\* current_diff_index, the three classification trees and the rest of the
\* context stay as they are, the diff view below stays as it is, and no
\* further popup is pushed, so a step taken under a popup either leaves all
\* of that alone or is no key event.
C20_OnlyTopmostLayer ==
    [][PopupOnTop =>
          \/ /\ CtxUnchanged
             /\ Len(layers') <= Len(layers)
             /\ \A i \in 1..(Len(layers) - 1) : layers'[i] = layers[i]
          \/ \A key \in Keys : ~KeyEvent(key)]_vars

\* the apply popup is open over a diff view that has a diff selected and
\* classified, and has handled a key (YES is selected on it)
C20_Witness ==
    /\ aborted = ""
    /\ Len(layers) = 2
    /\ layers[2].kind = "Apply Changes?"
    /\ layers[2].yes_selected
    /\ current_diff_index # None
    /\ merges_2_into_1 # <<>>

\* C22: in every state of the interactive loop the layer stack is not empty,
\* its bottom layer is the diff view, and at most one layer, a popup, lies
\* above it.
C22_DiffViewAtBottom ==
    /\ layers # <<>>
    /\ layers[1] = DiffView
    /\ Len(layers) <= 2
    /\ \A i \in 2..Len(layers) : layers[i].kind \in {"Quit?", "Apply Changes?"}

\* the quit popup lies above the diff view, with diffs classified
C22_Witness ==
    /\ aborted = ""
    /\ ~exit
    /\ layers = <<DiffView, QuitPopup>>
    /\ merges_1_into_2 # <<>>
    /\ leave_unmerged # <<>>
    /\ all_diffs_loaded

\* one change applied to a stack
ApplyOne(ls, ch) ==
    IF ch.change = "Push" THEN Append(ls, ch.layer)
    ELSE IF ls = <<>> THEN ls ELSE SubSeq(ls, 1, Len(ls) - 1)
\* the stack after the changes were applied in the order of the list
RECURSIVE ApplyInOrder(_, _)
ApplyInOrder(ls, changes) ==
    IF changes = <<>> THEN ls
    ELSE ApplyOne(ApplyInOrder(ls, SubSeq(changes, 1, Len(changes) - 1)), Last(changes))

\* C21: while a key is handled or a frame rendered, requests are only added at
\* the end of the change-list and the stack stays as it is; when the handler
\* has returned, or every layer has rendered, the stack becomes what the
\* recorded changes make of it in the order they were requested; and the
\* change-list is empty whenever a key or a frame is begun or ended.
C21_ChangesDeferred ==
    [][/\ (layer_pc # "idle" /\ layer_pc' # "idle") =>
             /\ layers' = layers
             /\ IsPrefix(layer_changes, layer_changes')
       /\ (layer_pc # "idle" /\ layer_pc' = "idle") =>
             layers' = ApplyInOrder(layers, layer_changes)
       /\ (layer_pc = "idle" /\ layer_pc' # "idle") => layers' = layers
       /\ (layer_pc = "idle" \/ layer_pc' = "idle") => layer_changes' = <<>>
       /\ (layer_pc = "render" /\ layer_pc' = "idle") => render_index = Len(layers)]_vars

\* the popup that handles a key has requested a pop and then a push: both
\* are recorded, the stack is as it was
C21_Witness ==
    /\ layer_pc = "handle_key_event"
    /\ layer_changes = <<Pop, Push(ApplyChangesPopup)>>
    /\ layers = <<DiffView, QuitPopup>>

(***************************************************************************)
(* Properties of the main loop and its worker threads.                     *)
(***************************************************************************)
\* C23: all_diffs_loaded never goes back to false and diffs never changes
\* once it is true; it is true only after the differ has run to exhaustion,
\* with diffs holding every range the differ yields for the two files, in
\* order.
C23_LoadedOnceWhenExhausted ==
    [][/\ all_diffs_loaded => (all_diffs_loaded' /\ diffs' = diffs)
       /\ all_diffs_loaded' =>
             /\ diff_thread' = "ended"
             /\ diffs' = BytesAll(fileA', fileB')]_vars

\* C24: in no state has the diff thread failed on a read while the main loop
\* keeps running.
C24_ReadErrorAborts ==
    diff_thread = "panicked" => ~Running

\* the ranges rs satisfy, one after the other, the assertions of append
AppendsOk(rs) ==
    \A i \in 1..Len(rs) :
        /\ rs[i].start <= rs[i].end
        /\ rs[i].start >= (IF i = 1 THEN 0 ELSE rs[i - 1].end)

\* C29: the ranges received are, in order, the first ones the differ has
\* yielded; with those still in the channel they are all of them; each
\* satisfies the precondition of append, and no append has aborted.
C29_ReceivedInOrder ==
    /\ aborted # "RangeTree::append assertion"
    /\ IsPrefix(diffs, out)
    /\ diff_rx.open => diffs \o diff_rx.queue = out
    /\ AppendsOk(diffs \o diff_rx.queue)

\* two ranges have been yielded, sent, received and appended
C29_Witness ==
    /\ aborted = ""
    /\ Len(diffs) = 2
    /\ diffs = out
    /\ diff_thread = "ended"
    /\ all_diffs_loaded

\* C30: while the loop runs, an event the event thread offers is taken in the
\* end, a range in the diff channel is received in the end, and once the diff
\* thread has ended all_diffs_loaded becomes true in the end.
C30_NoStarvation ==
    /\ (event_tx # None) ~> (event_tx = None \/ ~Running)
    /\ (diff_rx.queue # <<>>) ~> (diff_rx.queue = <<>> \/ ~Running)
    /\ (diff_thread = "ended") ~> (all_diffs_loaded \/ ~Running)

\* a key is offered while a range waits in the diff channel and the loop is
\* about to select
C30_Witness ==
    /\ Running
    /\ phase = "select"
    /\ event_tx = Some("n")
    /\ diff_rx.queue # <<>>
    /\ diffs # <<>>

(***************************************************************************)
(* Properties of apply_changes.                                            *)
(***************************************************************************)
ApplyDone == apply_pc = "exited"
\* the ranges of the sequence ds that are not in the set S
Without(ds, S) ==
    LET Kept(r) == r \notin S IN SelectSeq(ds, Kept)
\* the file `to` with the bytes of `from` on the range r
CopyRange(from, to, r) ==
    [o \in 1..Len(to) |-> IF o - 1 \in Offsets(r) THEN from[o] ELSE to[o]]
RECURSIVE CopyRanges(_, _, _)
CopyRanges(from, to, rs) ==
    IF rs = <<>> THEN to
    ELSE CopyRanges(from, CopyRange(from, to, Head(rs)), Tail(rs))
\* the two files when all of merges_1_into_2 is copied before merges_2_into_1
RightThenLeft(pre) ==
    LET file2 == CopyRanges(pre.file1, pre.file2, pre.merges_1_into_2)
        file1 == CopyRanges(file2, pre.file1, pre.merges_2_into_1)
    IN  <<file1, file2>>

\* C25: when apply_changes is over, file1 holds the former bytes of file2 on
\* the ranges of merges_2_into_1 and its own former bytes everywhere else,
\* file2 the former bytes of file1 on the ranges of merges_1_into_2 and its
\* own former bytes everywhere else.
C25_ApplyCopiesExactly ==
    ApplyDone =>
        /\ Len(fileA) = Len(pre_apply.file1)
        /\ Len(fileB) = Len(pre_apply.file2)
        /\ \A o \in 0..(Len(fileA) - 1) :
              /\ fileA[o + 1] = IF o \in Covered(pre_apply.merges_2_into_1)
                                THEN pre_apply.file2[o + 1] ELSE pre_apply.file1[o + 1]
              /\ fileB[o + 1] = IF o \in Covered(pre_apply.merges_1_into_2)
                                THEN pre_apply.file1[o + 1] ELSE pre_apply.file2[o + 1]

\* apply_changes is over for three diffs, one merged each way and one left
\* unmerged
C25_Witness ==
    /\ ApplyDone
    /\ Len(pre_apply.merges_1_into_2) = 1
    /\ Len(pre_apply.merges_2_into_1) = 1
    /\ Len(pre_apply.leave_unmerged) = 1
    /\ fileA # pre_apply.file1
    /\ fileB # pre_apply.file2

\* C26 as stated: the differ run on the files apply_changes leaves yields the
\* diffs of the former files without those classified in any of the three
\* ways.
C26_RediffMinusClassified ==
    ApplyDone =>
        BytesAll(fileA, fileB) =
            Without(BytesAll(pre_apply.file1, pre_apply.file2),
                    RangesOf(pre_apply.merges_1_into_2)
                        \cup RangesOf(pre_apply.merges_2_into_1)
                        \cup RangesOf(pre_apply.leave_unmerged))

\* C26, amended: the differ run on the files apply_changes leaves yields the
\* diffs of the former files without those merged one way or the other; the
\* diffs left unmerged, and the unclassified ones, are yielded as before.
C26_RediffMinusMerged ==
    ApplyDone =>
        BytesAll(fileA, fileB) =
            Without(BytesAll(pre_apply.file1, pre_apply.file2),
                    RangesOf(pre_apply.merges_1_into_2)
                        \cup RangesOf(pre_apply.merges_2_into_1))

\* apply_changes is over with a diff merged and another left unmerged, which
\* the differ still yields
C26_Witness ==
    /\ ApplyDone
    /\ pre_apply.merges_2_into_1 = <<>>
    /\ Len(pre_apply.merges_1_into_2) = 1
    /\ Len(pre_apply.leave_unmerged) = 1
    /\ BytesAll(fileA, fileB) = pre_apply.leave_unmerged

C28_PhaseOrderIrrelevant ==
    ApplyDone => <<fileA, fileB>> = RightThenLeft(pre_apply)

\* apply_changes is over with two diffs merged into file2 and one into file1
C28_Witness ==
    /\ ApplyDone
    /\ Len(pre_apply.merges_1_into_2) = 2
    /\ Len(pre_apply.merges_2_into_1) = 1
    /\ apply_locals.done = 3

(***************************************************************************)
(* Further properties of navigation, classification, the differ and copy.  *)
(***************************************************************************)
\* C31: in every reachable state a current_diff_index of Some(i) has
\* i < diffs.len(), and no key has aborted on a remainder by zero or on the
\* unwrap of a diff that does not exist.
C31_IndexValid ==
    /\ current_diff_index # None => current_diff_index[1] < Len(diffs)
    /\ aborted \notin {"remainder by zero", "unwrap on None"}

\* the tree a classification key inserts into, as it is in this state
TreeOfKey(key) ==
    CASE key = ">" -> merges_1_into_2
      [] key = "<" -> merges_2_into_1
      [] key = "=" -> leave_unmerged

\* C32: a key '>', '<' or '=' handled by the diff view while the current diff
\* is already stored in the tree of that key does not abort and leaves the
\* three trees as they were.
C32_ClassifyIdempotent ==
    [][\A key \in {">", "<", "="} :
          (/\ DiffViewOnTop
           /\ CurrentDiff # None
           /\ Stored(TreeOfKey(key), CurrentDiff[1])
           /\ KeyEvent(key)) =>
              /\ aborted' = ""
              /\ UNCHANGED <<merges_1_into_2, merges_2_into_1, leave_unmerged>>]_vars

\* C33: every range a differ has yielded is non-empty, the byte before its
\* start and the byte at its end (where the files have one) are equal in the
\* two files, and a yielded range ends strictly before the next one starts.
C33_RangesMaximal ==
    /\ \A i \in 1..Len(out) :
          /\ out[i].start < out[i].end
          /\ out[i].start > 0 => (out[i].start - 1) \notin DiffOffsets
          /\ out[i].end < Len(fileA) => out[i].end \notin DiffOffsets
    /\ \A i \in 1..(Len(out) - 1) : out[i].end < out[i + 1].start

\* The buffered scan has run to its end and has yielded one range longer than
\* a read buffer, followed by an equal byte.
C33_Witness ==
    /\ strategy = "memchr"
    /\ Exhausted
    /\ Len(out) = 1
    /\ out[1].end - out[1].start > BufCap
    /\ out[1].end < Len(fileA)

\* a call of copy is under way
InCopy == apply_pc \in {"left", "right"} /\ apply_locals.pos # None
\* the range the call of copy under way was given
CopyRangeNow == ApplyRanges[apply_locals.i + 1]

\* C34: copy is only called with a range within the files; every turn of its
\* loop moves pos forward by at least one byte and not beyond range.end, and
\* writes at the offsets it passes the bytes the source file holds there and
\* nowhere else; copy returns with pos = range.end; and every call of copy
\* returns.
C34_CopyTerminates ==
    /\ [][/\ (InCopy /\ apply_locals.pos' # apply_locals.pos) =>
               /\ CopyRangeNow.end <= Len(fileA)
               /\ apply_locals.pos' = None
                    => apply_locals.pos[1] = CopyRangeNow.end
               /\ apply_locals.pos' # None =>
                    LET p == apply_locals.pos[1]
                        q == apply_locals.pos'[1]
                    IN  /\ p < q
                        /\ q <= CopyRangeNow.end
                        /\ \A o \in 0..(Len(fileA) - 1) :
                              IF p <= o /\ o < q
                              THEN /\ apply_pc = "left" => fileA'[o + 1] = fileB[o + 1]
                                   /\ apply_pc = "right" => fileB'[o + 1] = fileA[o + 1]
                              ELSE /\ fileA'[o + 1] = fileA[o + 1]
                                   /\ fileB'[o + 1] = fileB[o + 1]
                        /\ apply_pc = "left" => fileB' = fileB
                        /\ apply_pc = "right" => fileA' = fileA
          /\ (InCopy /\ apply_locals.pos' = apply_locals.pos) =>
               UNCHANGED <<fileA, fileB>>]_vars
    /\ (InCopy ~> ~InCopy)

\* copy is in the middle of a range after a read that came back short
C34_Witness ==
    /\ InCopy
    /\ CopyRangeNow.start < apply_locals.pos[1]
    /\ apply_locals.pos[1] < CopyRangeNow.end
    /\ CopyRangeNow.end - CopyRangeNow.start <= BufCap

\* C35: when the diff view handles Down or PageDown, len is at least
\* shown_data_height * 16, and when it handles 'n' or 'N' and the key selects
\* a diff, shown_data_height * 16 is at least 48; no key aborts on an
\* overflow.
C35_NoUnderflow ==
    [][DiffViewOnTop =>
          /\ \A key \in {"Down", "PageDown"} :
                KeyEvent(key) => /\ ctx_len >= shown_data_height * 16
                                 /\ aborted' # "overflow"
          /\ \A key \in {"n", "N"} :
                (KeyEvent(key) /\ CurrentDiff' # None) =>
                    /\ shown_data_height * 16 >= 48
                    /\ aborted' # "overflow"]_vars

====
